---- MODULE Spec2Model ----
(***************************************************************************)
(* Verification model of shaun-rs: the SQL scanner (parser/lexer.rs), the  *)
(* statement parser (parser/mod.rs), the catalog (catalog/mod.rs) and the  *)
(* logical planner (planner/*.rs).                                         *)
(*                                                                         *)
(* Four specifications share the module, one per component:                *)
(*   SpecCatalog  CataLog::create_table and the read side                  *)
(*   SpecPlanner  Planner over a frozen catalog (Arc<CataLog>)             *)
(*   SpecLexer    Lexer::update / Lexer::next_token over byte strings      *)
(*   SpecParser   Parser::update / Parser::parse_stmt                      *)
(* Each leaves the variables of the other components untouched.            *)
(***************************************************************************)
EXTENDS Integers, Sequences, FiniteSets, TLC

VARIABLES
    catalog,     \* CataLog: id_table_map, name_id_map, next_table_id, index_names_map
    cat_ret,     \* result of the last CataLog call
    cat_ok,      \* number of create_table calls that returned Ok so far
    planner,     \* Planner: catalog (Arc<CataLog>), context (PlanContext)
    plan_ret,    \* the last Planner call: its statement and its result
    lexer,       \* Lexer: origin_str, cur_read_char, pos, read_pos
    lex_ret,     \* the last Lexer call: the source in effect, the calls since, the token
    parser,      \* Parser: lexer, pre_token, peek_token
    parse_ret    \* result of the last Parser call

vars == <<catalog, cat_ret, cat_ok, planner, plan_ret,
          lexer, lex_ret, parser, parse_ret>>

catVars == <<catalog, cat_ret, cat_ok>>
planVars == <<planner, plan_ret>>
lexVars == <<lexer, lex_ret>>
parseVars == <<parser, parse_ret>>

\* Option<T>
None == [some |-> FALSE]
Some(x) == [some |-> TRUE, v |-> x]

\* HashMap<K, V> as a function with a finite domain
EmptyMap == <<>>
Insert(m, k, x) == [y \in (DOMAIN m) \cup {k} |-> IF y = k THEN x ELSE m[y]]
ContainsKey(m, k) == k \in DOMAIN m
Get(m, k) == IF k \in DOMAIN m THEN Some(m[k]) ELSE None

(***************************************************************************)
(* Catalog  (src/src/catalog/mod.rs)                                       *)
(***************************************************************************)

\* bounds of the catalog model
MaxTables == 3
MaxCols == 2

TableNames == {"a", "b", "d"}
ColNames == {"id", "x"}
\* Schema.columns as the sequence of the columns' names; the catalog and the
\* planner never read column_type
Schemas == UNION {[1..n -> ColNames] : n \in 1..MaxCols}

\* i32::MAX, the width of TableID and of next_table_id
I32Max == 2147483647

\* the value AtomicI32::fetch_add(1) stores: old + 1, wrapping in 32 bits
FetchAdd1(old) == IF old = I32Max THEN (0 - I32Max) - 1 ELSE old + 1

CataLogDefault ==
    [id_table_map |-> EmptyMap, name_id_map |-> EmptyMap,
     next_table_id |-> 0, index_names_map |-> EmptyMap]

TableInfoNew(table_name, id, schema) ==
    [name |-> table_name, id |-> id, schema |-> schema]

\* create_table with the id and the name bindings of different tables
create_table_no_check(cat, table_name, schema) ==
    LET table_id == cat.next_table_id
        table_info == TableInfoNew(table_name, table_id, schema)
    IN [cat |-> [id_table_map |-> Insert(cat.id_table_map, table_id, table_info),
                 name_id_map |-> Insert(cat.name_id_map, table_name, table_id),
                 next_table_id |-> FetchAdd1(cat.next_table_id),
                 index_names_map |-> Insert(cat.index_names_map, table_name, EmptyMap)],
        ret |-> [kind |-> "Ok", info |-> table_info]]

\* create_table that takes the id before it looks the name up
create_table_id_first(cat, table_name, schema) ==
    IF ContainsKey(cat.name_id_map, table_name)
    THEN [cat |-> [cat EXCEPT !.next_table_id = FetchAdd1(@)],
          ret |-> [kind |-> "Err", err |-> "Internal", msg |-> "has been exist"]]
    ELSE create_table_no_check(cat, table_name, schema)

\* CataLog::create_table: the new catalog and the returned Result
create_table(cat, table_name, schema) ==
    IF ContainsKey(cat.name_id_map, table_name)
    THEN [cat |-> cat,
          ret |-> [kind |-> "Err", err |-> "Internal", msg |-> "has been exist"]]
    ELSE LET table_id == cat.next_table_id
             table_info == TableInfoNew(table_name, table_id, schema)
         IN [cat |-> [id_table_map |-> Insert(cat.id_table_map, table_id, table_info),
                      name_id_map |-> Insert(cat.name_id_map, table_name, table_id),
                      next_table_id |-> FetchAdd1(cat.next_table_id),
                      index_names_map |-> Insert(cat.index_names_map, table_name, EmptyMap)],
             ret |-> [kind |-> "Ok", info |-> table_info]]

is_table_exist(cat, table_name) == Get(cat.name_id_map, table_name).some

table_by_name(cat, table_name) ==
    LET id == Get(cat.name_id_map, table_name)
    IN IF id.some THEN Get(cat.id_table_map, id.v) ELSE None

table_by_id(cat, table_id) == Get(cat.id_table_map, table_id)

(***************************************************************************)
(* AST  (src/src/parser/expression.rs, operation.rs, stmt.rs, column.rs)   *)
(***************************************************************************)

\* Expression::Field(Option<String>, String)
Field(table, name) == [kind |-> "Field", table |-> table, name |-> name]
\* Expression::Literal(Literal): lit is "All", "Null", "Bool", "Int", "Float", "String"
Literal(lit, val) == [kind |-> "Literal", lit |-> lit, val |-> val]
\* Expression::Function(String, Vec<Expression>)
Function(name, args) == [kind |-> "Function", name |-> name, args |-> args]
\* Expression::Operation(Operation) with two operands
BinOp(op, l, r) == [kind |-> "Operation", op |-> op, l |-> l, r |-> r]
\* Expression::Operation(Operation) with one operand
UnOp(op, e) == [kind |-> "Operation", op |-> op, e |-> e]

BinaryOperations ==
    {"And", "Or", "NotEqual", "Equal", "GreaterThan", "GreaterThanOrEqual",
     "LessThan", "LessThanOrEqual", "Add", "Subtract", "Multiply", "Divide",
     "Like", "Modulo"}
UnaryOperations == {"Not", "IsNull", "Assert", "Negate", "BitWiseNot"}

\* FromItem::Table and FromItem::Join
FromTable(name, alias) == [kind |-> "Table", name |-> name, alias |-> alias]
FromJoin(left, right, join_type, predicate) ==
    [kind |-> "Join", left |-> left, right |-> right,
     join_type |-> join_type, predicate |-> predicate]

\* SelectStmt
SelectStmt(selects, froms, wheres, group_by, order) ==
    [selects |-> selects, froms |-> froms, wheres |-> wheres,
     group_by |-> group_by, having |-> None, order |-> order,
     offset |-> None, limit |-> None]

\* str::to_uppercase on the function names the model uses
to_uppercase(name) ==
    CASE name = "count" -> "COUNT"
      [] name = "foo" -> "FOO"
      [] OTHER -> name

\* Result values
Ok(x) == [kind |-> "Ok", v |-> x]
Err(err, msg) == [kind |-> "Err", err |-> err, msg |-> msg]
\* todo!(), unimplemented!() and index or slice panics
Panic == [kind |-> "Panic"]

RECURSIVE has_aggregation(_)
\* Expression::has_aggregation
has_aggregation(expr) ==
    CASE expr.kind = "Field" -> Ok(FALSE)
      [] expr.kind = "Column" -> Ok(FALSE)
      [] expr.kind = "Literal" -> Ok(FALSE)
      [] expr.kind = "Function" ->
            IF to_uppercase(expr.name) \in {"SUM", "AVG", "COUNT", "MIN", "ONLY"}
            THEN Ok(TRUE)
            ELSE Err("Parse", "function_name is not valid")
      [] expr.kind = "Operation" ->
            IF expr.op \in UnaryOperations
            THEN has_aggregation(expr.e)
            ELSE LET l == has_aggregation(expr.l)
                 IN IF l.kind # "Ok" THEN l
                    ELSE IF l.v THEN Ok(TRUE)
                    ELSE has_aggregation(expr.r)

(***************************************************************************)
(* PlanContext  (src/src/planner/context.rs)                               *)
(***************************************************************************)

PlanContextNew == [table_map |-> EmptyMap, column_map |-> EmptyMap]

info_by_name(ctx, name) == Get(ctx.table_map, name)

tablenames_by_columnname(ctx, column_name) == Get(ctx.column_map, column_name)

RECURSIVE insert_columns(_, _, _, _)
\* the loop of insert_column_info from column i (1-based) on
insert_columns(column_map, columns, table_name, i) ==
    IF i > Len(columns) THEN column_map
    ELSE LET col == columns[i]
             next == IF ContainsKey(column_map, col)
                     THEN Insert(column_map, col, Append(column_map[col], table_name))
                     ELSE Insert(column_map, col, <<table_name>>)
         IN insert_columns(next, columns, table_name, i + 1)

\* PlanContext::insert_column_info
insert_column_info(ctx, table_info) ==
    [ctx EXCEPT !.column_map =
        insert_columns(@, table_info.schema, table_info.name, 1)]

\* insert_table_info that binds an aliased table under its alias alone
insert_table_info_alias_only(ctx, table_name, alias, info) ==
    IF alias.some
    THEN IF ~info_by_name(ctx, table_name).some /\ ~info_by_name(ctx, alias.v).some
         THEN [ctx |-> insert_column_info(
                         [ctx EXCEPT !.table_map = Insert(@, alias.v, info)], info),
               ret |-> Ok("unit")]
         ELSE [ctx |-> ctx, ret |-> Err("Plan", "is exist")]
    ELSE IF info_by_name(ctx, table_name).some
         THEN [ctx |-> ctx, ret |-> Err("Plan", "is exist")]
         ELSE [ctx |-> insert_column_info(
                         [ctx EXCEPT !.table_map = Insert(@, table_name, info)], info),
               ret |-> Ok("unit")]

\* insert_table_info that looks up the table name only, never the alias
insert_table_info_name_only(ctx, table_name, alias, info) ==
    IF info_by_name(ctx, table_name).some
    THEN [ctx |-> ctx, ret |-> Err("Plan", "is exist")]
    ELSE LET m1 == Insert(ctx.table_map, table_name, info)
             m2 == IF alias.some THEN Insert(m1, alias.v, info) ELSE m1
         IN [ctx |-> insert_column_info([ctx EXCEPT !.table_map = m2], info),
             ret |-> Ok("unit")]

\* PlanContext::insert_table_info: the new context and the returned Result
insert_table_info(ctx, table_name, alias, info) ==
    IF alias.some
    THEN IF ~info_by_name(ctx, table_name).some /\ ~info_by_name(ctx, alias.v).some
         THEN LET m1 == Insert(ctx.table_map, table_name, info)
                  m2 == Insert(m1, alias.v, info)
              IN [ctx |-> insert_column_info([ctx EXCEPT !.table_map = m2], info),
                  ret |-> Ok("unit")]
         ELSE [ctx |-> ctx, ret |-> Err("Plan", "is exist")]
    ELSE IF info_by_name(ctx, table_name).some
         THEN [ctx |-> ctx, ret |-> Err("Plan", "is exist")]
         ELSE [ctx |-> insert_column_info(
                         [ctx EXCEPT !.table_map = Insert(@, table_name, info)], info),
               ret |-> Ok("unit")]


(***************************************************************************)
(* Planner  (src/src/planner/mod.rs, plan_expression.rs, plan_select.rs,   *)
(*           plan_createtable.rs)                                          *)
(***************************************************************************)

\* Expr, the planner's resolved expression (src/src/types/expr.rs)
ColumnExpr(column_index, table_name, column_name) ==
    [kind |-> "ColumnExpr", column_index |-> column_index,
     table_name |-> table_name, column_name |-> column_name]
LiteralExpr(lit, val) == [kind |-> "Literal", lit |-> lit, val |-> val]
BinaryExpr(left, op, right) ==
    [kind |-> "BinaryExpr", left |-> left, op |-> op, right |-> right]
AggExpr(agg_type, args) == [kind |-> "Agg", agg_type |-> agg_type, args |-> args]

\* the position of the first column called column_name counted from one
column_position_from_one(columns, column_name) ==
    LET hits == {i \in 1..Len(columns) : columns[i] = column_name}
    IN IF hits = {} THEN None
       ELSE Some(CHOOSE i \in hits : \A j \in hits : i <= j)

\* the zero-based position of the first column called column_name, if any:
\* `for (idx, col) in info.schema.columns.iter().enumerate()`
column_position(columns, column_name) ==
    LET hits == {i \in 1..Len(columns) : columns[i] = column_name}
    IN IF hits = {} THEN None
       ELSE Some((CHOOSE i \in hits : \A j \in hits : i <= j) - 1)

\* the Operator a binary Operation is planned to; the others are todo!()
OperatorOf(op) ==
    CASE op = "And" -> Some("And")
      [] op = "Or" -> Some("Or")
      [] op = "NotEqual" -> Some("NotEq")
      [] op = "Equal" -> Some("Eq")
      [] op = "GreaterThan" -> Some("Gt")
      [] op = "GreaterThanOrEqual" -> Some("GtEq")
      [] op = "LessThan" -> Some("Lt")
      [] op = "LessThanOrEqual" -> Some("LtEq")
      [] op = "Add" -> Some("Plus")
      [] op = "Subtract" -> Some("Minus")
      [] op = "Multiply" -> Some("Multiply")
      [] op = "Divide" -> Some("Divide")
      [] OTHER -> None

\* the AggExpr a function name is planned to
AggOf(func_name) ==
    CASE func_name = "MIN" -> Some("Min")
      [] func_name = "MAX" -> Some("Max")
      [] func_name = "COUNT" -> Some("Count")
      [] func_name = "SUM" -> Some("Sum")
      [] OTHER -> None

\* the Field(None, column_name) arm of plan_expression
plan_unqualified(ctx, column_name) ==
    LET table_names == tablenames_by_columnname(ctx, column_name)
    IN IF ~table_names.some THEN Err("Plan", "is not exist")
       ELSE IF Len(table_names.v) # 1 THEN Err("Plan", "is fuzzy")
       ELSE LET info == info_by_name(ctx, table_names.v[1])
            IN IF ~info.some THEN Err("Internal", "must exist in table_map")
               ELSE LET idx == column_position(info.v.schema, column_name)
                    IN IF idx.some
                       THEN Ok(ColumnExpr(idx.v, table_names.v[1], column_name))
                       ELSE Panic

\* the Field(Some(table_name), column_name) arm of plan_expression
plan_qualified(ctx, table_name, column_name) ==
    LET info == info_by_name(ctx, table_name)
    IN IF ~info.some THEN Err("Plan", "table is not exist")
       ELSE LET idx == column_position(info.v.schema, column_name)
            IN IF idx.some
               THEN Ok(ColumnExpr(idx.v, table_name, column_name))
               ELSE Err("Plan", "is not exist in table")

RECURSIVE plan_expression(_, _)
RECURSIVE plan_expression_list(_, _, _)

\* Planner::plan_expression_list from element i (1-based) on
plan_expression_list(ctx, exprs_list, i) ==
    IF i > Len(exprs_list) THEN Ok(<<>>)
    ELSE LET head == plan_expression(ctx, exprs_list[i])
         IN IF head.kind # "Ok" THEN head
            ELSE LET rest == plan_expression_list(ctx, exprs_list, i + 1)
                 IN IF rest.kind # "Ok" THEN rest
                    ELSE Ok(<<head.v>> \o rest.v)

\* Planner::plan_expression (with plan_operation and plan_binary_op)
plan_expression(ctx, expr) ==
    CASE expr.kind = "Field" ->
            IF expr.table.some
            THEN plan_qualified(ctx, expr.table.v, expr.name)
            ELSE plan_unqualified(ctx, expr.name)
      [] expr.kind = "Column" -> Panic
      [] expr.kind = "Literal" -> Ok(LiteralExpr(expr.lit, expr.val))
      [] expr.kind = "Function" ->
            LET agg == AggOf(expr.name)
            IN IF ~agg.some THEN Err("Plan", "unknown function_name")
               ELSE LET args == plan_expression_list(ctx, expr.args, 1)
                    IN IF args.kind # "Ok" THEN args
                       ELSE Ok(AggExpr(agg.v, args.v))
      [] expr.kind = "Operation" ->
            LET op == OperatorOf(expr.op)
            IN IF ~op.some THEN Panic
               ELSE LET l == plan_expression(ctx, expr.l)
                    IN IF l.kind # "Ok" THEN l
                       ELSE LET r == plan_expression(ctx, expr.r)
                            IN IF r.kind # "Ok" THEN r
                               ELSE Ok(BinaryExpr(l.v, op.v, r.v))

RECURSIVE plan_from(_, _, _)
\* Planner::plan_from: the context it leaves and the returned Result
plan_from(ctx, cat, join_item) ==
    IF join_item.kind = "Join"
    THEN LET left_node == plan_from(ctx, cat, join_item.left)
         IN IF left_node.ret.kind # "Ok" THEN left_node
            ELSE LET right_node == plan_from(left_node.ctx, cat, join_item.right)
                 IN IF right_node.ret.kind # "Ok" THEN right_node
                    ELSE IF ~join_item.predicate.some
                    THEN [ctx |-> right_node.ctx,
                          ret |-> Err("Plan", "join must take with condition expression")]
                    ELSE LET pred == plan_expression(right_node.ctx, join_item.predicate.v)
                         IN [ctx |-> right_node.ctx,
                             ret |-> IF pred.kind # "Ok" THEN pred
                                     ELSE Ok([kind |-> "Join",
                                              left |-> left_node.ret.v,
                                              right |-> right_node.ret.v,
                                              join_type |-> join_item.join_type,
                                              predicates |-> pred.v])]
    ELSE LET info == table_by_name(cat, join_item.name)
         IN IF ~info.some
            THEN [ctx |-> ctx, ret |-> Err("Plan", "table is not exist")]
            ELSE LET ins == insert_table_info(ctx, join_item.name, join_item.alias, info.v)
                 IN IF ins.ret.kind # "Ok" THEN ins
                    ELSE [ctx |-> ins.ctx,
                          ret |-> Ok([kind |-> "Scan", table_name |-> join_item.name,
                                      table_id |-> info.v.id, predicates |-> None])]


RECURSIVE selects_have_agg(_, _)
\* the loop of plan_select over the select list, from element i on:
\* Ok(is_has_agg) or the error has_aggregation returned
selects_have_agg(selects, i) ==
    IF i > Len(selects) THEN Ok(FALSE)
    ELSE LET h == has_aggregation(selects[i].expr)
         IN IF h.kind # "Ok" THEN h
            ELSE IF h.v THEN Ok(TRUE)
            ELSE selects_have_agg(selects, i + 1)

RECURSIVE plan_select_exprs(_, _, _)
\* the loop of plan_normal_select, from element i on
plan_select_exprs(ctx, selects, i) ==
    IF i > Len(selects) THEN Ok(<<>>)
    ELSE LET head == plan_expression(ctx, selects[i].expr)
         IN IF head.kind # "Ok" THEN head
            ELSE LET rest == plan_select_exprs(ctx, selects, i + 1)
                 IN IF rest.kind # "Ok" THEN rest
                    ELSE Ok(<<[expr |-> head.v, alias |-> selects[i].alias]>> \o rest.v)

\* Planner::plan_normal_select
plan_normal_select(ctx, select_stmt, node) ==
    LET exprs == plan_select_exprs(ctx, select_stmt.selects, 1)
    IN IF exprs.kind # "Ok" THEN exprs
       ELSE Ok([kind |-> "Projection", exprs |-> exprs.v, input |-> node])

RECURSIVE plan_order_exprs(_, _, _)
\* the loop of plan_select over ORDER BY, from element i on
plan_order_exprs(ctx, order_by, i) ==
    IF i > Len(order_by) THEN Ok(<<>>)
    ELSE LET head == plan_expression(ctx, order_by[i].expr)
         IN IF head.kind # "Ok" THEN head
            ELSE LET rest == plan_order_exprs(ctx, order_by, i + 1)
                 IN IF rest.kind # "Ok" THEN rest
                    ELSE Ok(<<[expr |-> head.v, by |-> order_by[i].by]>> \o rest.v)

\* plan_select that projects the FROM plan first and filters the Projection
plan_select_tail_filter_outside(ctx, select_stmt, from_node) ==
    LET proj == plan_normal_select(ctx, select_stmt, from_node)
    IN IF proj.kind # "Ok" THEN proj
       ELSE IF ~select_stmt.wheres.some THEN proj
       ELSE LET pred == plan_expression(ctx, select_stmt.wheres.v)
            IN IF pred.kind # "Ok" THEN pred
               ELSE Ok([kind |-> "Filter", input |-> proj.v, predicates |-> pred.v])

\* plan_select from the WHERE clause on, the FROM plan being from_node
plan_select_tail(ctx, select_stmt, from_node) ==
    LET filter == IF select_stmt.wheres.some
                  THEN LET pred == plan_expression(ctx, select_stmt.wheres.v)
                       IN IF pred.kind # "Ok" THEN pred
                          ELSE Ok([kind |-> "Filter", input |-> from_node,
                                   predicates |-> pred.v])
                  ELSE Ok(from_node)
    IN IF filter.kind # "Ok" THEN filter
       ELSE LET is_has_agg == selects_have_agg(select_stmt.selects, 1)
            IN IF is_has_agg.kind # "Ok" THEN is_has_agg
               ELSE IF is_has_agg.v \/ select_stmt.group_by.some THEN Panic
               ELSE LET proj == plan_normal_select(ctx, select_stmt, filter.v)
                    IN IF proj.kind # "Ok" THEN proj
                       ELSE IF ~select_stmt.order.some THEN proj
                       ELSE LET by == plan_order_exprs(ctx, select_stmt.order.v, 1)
                            IN IF by.kind # "Ok" THEN by
                               ELSE Ok([kind |-> "Sort", input |-> proj.v,
                                        by_column |-> by.v])

\* Planner::plan_select: the context it leaves and the returned Result
plan_select(ctx, cat, select_stmt) ==
    IF Len(select_stmt.selects) = 0
    THEN [ctx |-> ctx, ret |-> Err("Plan", "can't select empty")]
    ELSE IF ~select_stmt.froms.some
    THEN [ctx |-> ctx, ret |-> Panic]
    ELSE IF Len(select_stmt.froms.v) = 0
    THEN [ctx |-> ctx, ret |-> Panic]
    ELSE LET node == plan_from(ctx, cat, select_stmt.froms.v[1])
         IN IF node.ret.kind # "Ok" THEN node
            ELSE [ctx |-> node.ctx,
                  ret |-> plan_select_tail(node.ctx, select_stmt, node.ret.v)]

\* Planner::new
PlannerNew(cat) == [catalog |-> cat, context |-> PlanContextNew]

\* Planner::reset_ctx
reset_ctx(self) == [self EXCEPT !.context = PlanContextNew]

\* Planner::plan: Select is planned, every other statement is todo!();
\* the planner it leaves and the returned Result
plan(self, ast) ==
    IF ast.kind = "Select"
    THEN LET r == plan_select(self.context, self.catalog, ast.select)
         IN [self |-> [self EXCEPT !.context = r.ctx], ret |-> r.ret]
    ELSE [self |-> self, ret |-> Panic]

\* the first column (1-based) whose name an earlier column already has, or 0
first_duplicate_column(columns) ==
    LET dups == {i \in 1..Len(columns) : \E j \in 1..(i - 1) : columns[j].name = columns[i].name}
    IN IF dups = {} THEN 0 ELSE CHOOSE i \in dups : \A j \in dups : i <= j

\* the checks of check_create_table, on the catalog cat
create_table_checks(cat, create_stmt) ==
    IF is_table_exist(cat, create_stmt.table_name)
    THEN Err("Plan", "is already exist in database")
    ELSE IF first_duplicate_column(create_stmt.columns) # 0
    THEN Err("Plan", "is fuzzy in your SQL")
    ELSE IF Cardinality({i \in 1..Len(create_stmt.columns) :
                            create_stmt.columns[i].primary_key}) # 1
    THEN Err("Plan", "only support one primary key")
    ELSE Ok("unit")

\* check_create_table that counts the primary keys as Binder::bind_create_stmt
\* does (more than one is rejected, none is accepted)
check_create_table_more_than_one(self, create_stmt) ==
    IF is_table_exist(self.catalog, create_stmt.table_name)
    THEN [self |-> self, ret |-> Err("Plan", "is already exist in database")]
    ELSE IF first_duplicate_column(create_stmt.columns) # 0
    THEN [self |-> self, ret |-> Err("Plan", "is fuzzy in your SQL")]
    ELSE IF Cardinality({i \in 1..Len(create_stmt.columns) :
                            create_stmt.columns[i].primary_key}) > 1
    THEN [self |-> self, ret |-> Err("Plan", "only support one primary key")]
    ELSE [self |-> self, ret |-> Ok("unit")]

\* check_create_table that installs the table it has accepted
check_create_table_and_create(self, create_stmt) ==
    LET ret == create_table_checks(self.catalog, create_stmt)
    IN IF ret.kind # "Ok" THEN [self |-> self, ret |-> ret]
       ELSE [self |-> [self EXCEPT !.catalog =
                          create_table(@, create_stmt.table_name,
                                       [i \in 1..Len(create_stmt.columns) |->
                                           create_stmt.columns[i].name]).cat],
             ret |-> ret]

\* Planner::check_create_table: the planner it leaves and the returned Result
check_create_table(self, create_stmt) ==
    [self |-> self, ret |-> create_table_checks(self.catalog, create_stmt)]

(***************************************************************************)
(* Scanner  (src/src/parser/lexer.rs, token.rs)                            *)
(*                                                                         *)
(* A source is the sequence of the bytes of a Rust String (valid UTF-8);   *)
(* a char is the code of `byte as char`, 0..255.                           *)
(***************************************************************************)

\* the printable ASCII characters: the codes 32..95 and 97..126, in order
PrintableLow ==
    " !\"#$%&'()*+,-./0123456789:;<=>?@ABCDEFGHIJKLMNOPQRSTUVWXYZ[\\]^_"
PrintableHigh == "abcdefghijklmnopqrstuvwxyz{|}~"

\* where the one-character string c is in str
IndexOf(str, c) == {i \in 1..Len(str) : SubSeq(str, i, i) = c}

\* the characters and their codes
CharCodes ==
    [c \in {SubSeq(PrintableLow, i, i) : i \in 1..Len(PrintableLow)}
           \cup {SubSeq(PrintableHigh, i, i) : i \in 1..Len(PrintableHigh)} |->
        IF IndexOf(PrintableLow, c) # {}
        THEN 31 + (CHOOSE i \in IndexOf(PrintableLow, c) : TRUE)
        ELSE 96 + (CHOOSE i \in IndexOf(PrintableHigh, c) : TRUE)]

\* the code of the one-character string c
Ch(c) == CharCodes[c]

\* the bytes of the ASCII string str
Bytes(str) == [i \in 1..Len(str) |-> Ch(SubSeq(str, i, i))]

STOP_CHAR == 0

\* Token: punctuation, Eof, KeyWord(k), and Number, String, Ident with their text
Tok(t) == [t |-> t]
KeyWord(k) == [t |-> "KeyWord", k |-> k]
TextTok(t, text) == [t |-> t, text |-> text]

\* the keywords and their spelling: the variant's name in lower case
KeywordNames ==
    { "Select", "From", "Where", "Group", "By", "Having", "Order", "Asc", "Desc",
      "Limit", "Offset", "Join", "Inner", "Outer", "Left", "Right", "On", "As",
      "And", "Or", "Not", "Null", "True", "False", "Like", "Insert", "Into",
      "Values", "Update", "Set", "Delete", "Create", "Drop", "Table", "Index",
      "Unique", "Primary", "Key", "References", "Default", "Begin", "Commit",
      "Rollback", "Transaction", "Read", "Write", "Only", "Of", "System", "Time",
      "Explain", "Describe", "Show", "Tables", "Databases", "Isolation", "Level",
      "Uncommitted", "Committed", "Repeatable", "Serializable", "Session",
      "Global", "Alter", "Add", "Column", "Modify", "Rename", "To", "Int",
      "Integer", "Int8", "Int16", "Int32", "Int64", "Uint8", "Uint16", "Uint32",
      "Uint64", "Float", "Float32", "Float64", "Double", "Bool", "Boolean",
      "Char", "VarChar", "Text", "String", "Infinity" }

\* u8::to_ascii_lowercase / str::to_lowercase on ASCII
to_lower(b) == IF b \in 65..90 THEN b + 32 ELSE b

\* the keyword table: lower-case spelling -> keyword
KeywordTable == {<<[i \in 1..Len(k) |-> to_lower(Ch(SubSeq(k, i, i)))], k>> : k \in KeywordNames}

\* find_keyword: case-insensitive reverse lookup, UserIdent when there is none
find_keyword(ident_str) ==
    LET low == [i \in 1..Len(ident_str) |-> to_lower(ident_str[i])]
        hits == {e \in KeywordTable : e[1] = low}
    IN IF hits = {} THEN "UserIdent" ELSE (CHOOSE e \in hits : TRUE)[2]

\* is_letter
is_letter(ch) == ch \in 65..90 \/ ch \in 97..122 \/ ch = Ch("_")

\* is_digit: char::is_numeric on U+0000..U+00FF, the digits and
\* the superscripts and fractions of Latin-1
is_digit(ch) == ch \in 48..57 \/ ch \in {178, 179, 185, 188, 189, 190}

\* str::is_char_boundary at the zero-based byte index i
is_char_boundary(str, i) ==
    \/ i = 0
    \/ i = Len(str)
    \/ i < Len(str) /\ str[i + 1] \notin 128..191

\* &origin_str[from..to]: the slice, or a panic when the range is out of
\* bounds or cuts a character
Slice(str, from, to) ==
    IF from <= to /\ to <= Len(str)
       /\ is_char_boundary(str, from) /\ is_char_boundary(str, to)
    THEN Ok(SubSeq(str, from + 1, to))
    ELSE Panic

\* Lexer::read_char
read_char(lx) ==
    [lx EXCEPT !.cur_read_char = IF lx.read_pos >= Len(lx.origin_str)
                                 THEN STOP_CHAR
                                 ELSE lx.origin_str[lx.read_pos + 1],
               !.pos = lx.read_pos,
               !.read_pos = lx.read_pos + 1]

\* Lexer::new_lexer
new_lexer(sql_str) ==
    read_char([origin_str |-> sql_str, cur_read_char |-> STOP_CHAR,
               pos |-> 0, read_pos |-> 0])

\* Lexer::update that keeps the position counters
lexer_update_keep_pos(lx, new_sql_str) ==
    read_char([lx EXCEPT !.origin_str = new_sql_str, !.cur_read_char = STOP_CHAR])

\* Lexer::update
lexer_update(lx, new_sql_str) ==
    read_char([lx EXCEPT !.origin_str = new_sql_str, !.cur_read_char = STOP_CHAR,
                         !.pos = 0, !.read_pos = 0])

RECURSIVE skip_space(_)
\* Lexer::skip_space
skip_space(lx) ==
    IF lx.cur_read_char \in {32, 9, 10, 13}
    THEN skip_space(read_char(lx))
    ELSE lx

\* Lexer::peek_char
peek_char(lx) ==
    IF lx.read_pos >= Len(lx.origin_str) THEN STOP_CHAR
    ELSE lx.origin_str[lx.read_pos + 1]

RECURSIVE read_string_loop(_)
\* the loop of read_string
read_string_loop(lx) ==
    LET n == read_char(lx)
    IN IF n.cur_read_char \in {Ch("'"), Ch("\""), STOP_CHAR} THEN n
       ELSE read_string_loop(n)

\* String::from(&self.origin_str[pre_pos..self.pos]) in the lexer lx: the
\* lexer and the text, or a panic
Sliced(lx, pre_pos) == [lx |-> lx, text |-> Slice(lx.origin_str, pre_pos, lx.pos)]

\* Lexer::read_string
read_string(lx) == Sliced(read_string_loop(lx), lx.pos + 1)

RECURSIVE read_identifier_loop(_)
\* the loop of read_identifier
read_identifier_loop(lx) ==
    IF is_letter(lx.cur_read_char) \/ is_digit(lx.cur_read_char)
    THEN read_identifier_loop(read_char(lx))
    ELSE lx

\* Lexer::read_identifier
read_identifier(lx) == Sliced(read_identifier_loop(lx), lx.pos)

RECURSIVE read_number_loop(_)
\* the loop of read_number
read_number_loop(lx) ==
    IF is_digit(lx.cur_read_char) \/ lx.cur_read_char = Ch(".")
    THEN read_number_loop(read_char(lx))
    ELSE lx

\* Lexer::read_number
read_number(lx) == Sliced(read_number_loop(lx), lx.pos)

\* the tokens of one character
SingleCharToken(ch) ==
    CASE ch = Ch("=") -> Some("Equal")
      [] ch = Ch(".") -> Some("Period")
      [] ch = Ch("+") -> Some("Add")
      [] ch = Ch("-") -> Some("Minus")
      [] ch = Ch("*") -> Some("Asterisk")
      [] ch = Ch("/") -> Some("Slash")
      [] ch = Ch("^") -> Some("Caret")
      [] ch = Ch("%") -> Some("Percent")
      [] ch = Ch("?") -> Some("Question")
      [] ch = Ch("(") -> Some("LeftParen")
      [] ch = Ch(")") -> Some("RightParen")
      [] ch = Ch(",") -> Some("Comma")
      [] ch = Ch(";") -> Some("Semicolon")
      [] ch = STOP_CHAR -> Some("Eof")
      [] OTHER -> None

\* the token of a text r read by read_string, read_identifier or read_number
TextToken(t, r) ==
    IF r.text.kind # "Ok" THEN [lx |-> r.lx, tok |-> Panic]
    ELSE [lx |-> r.lx, tok |-> Ok(TextTok(t, r.text.v))]

\* next_token: `match keyword { Keyword::UserIdent => Token::Ident(ident_str), _ => Token::KeyWord(keyword) }`
IdentToken(r, keyword) ==
    IF keyword = "UserIdent" THEN r ELSE [lx |-> r.lx, tok |-> Ok(KeyWord(keyword))]

\* next_token: the arm of an identifier or keyword
IdentOrKeyword(r) ==
    IF r.tok.kind # "Ok" THEN r ELSE IdentToken(r, find_keyword(r.tok.v.text))

\* next_token: `self.read_char(); t`
ThenReadChar(r) == IF r.tok.kind # "Ok" THEN r ELSE [lx |-> read_char(r.lx), tok |-> r.tok]

\* next_token: the arms of >, < and !, which look for a following =
WithEqual(lx, with, without) ==
    IF peek_char(lx) = Ch("=")
    THEN [lx |-> read_char(read_char(lx)), tok |-> Ok(Tok(with))]
    ELSE [lx |-> read_char(lx), tok |-> Ok(Tok(without))]

\* next_token: the match on cur_read_char
MatchChar(lx, ch) ==
    CASE SingleCharToken(ch).some ->
              [lx |-> read_char(lx), tok |-> Ok(Tok(SingleCharToken(ch).v))]
         [] ch = Ch(">") -> WithEqual(lx, "GreaterThanOrEqual", "GreaterThan")
         [] ch = Ch("<") -> WithEqual(lx, "LessThanOrEqual", "LessThan")
         [] ch = Ch("!") -> WithEqual(lx, "NotEqual", "Exclamation")
         [] ch \in {Ch("'"), Ch("\"")} -> ThenReadChar(TextToken("String", read_string(lx)))
         [] is_letter(ch) -> IdentOrKeyword(TextToken("Ident", read_identifier(lx)))
         [] is_digit(ch) -> TextToken("Number", read_number(lx))
         [] OTHER -> [lx |-> read_char(lx), tok |-> Ok(KeyWord("UserIdent"))]

\* next_token after skip_space
AfterSpace(lx) == MatchChar(lx, lx.cur_read_char)

\* Lexer::next_token: the lexer it leaves and Ok(token), or a panic
lexer_next_token(lx) == AfterSpace(skip_space(lx))

(***************************************************************************)
(* Parser  (src/src/parser/mod.rs, stmt.rs)                                *)
(*                                                                         *)
(* A parser operation yields [p, ret]: the parser it leaves and Ok(value), *)
(* Err(Parse, msg) or Panic (a panic of the scanner, passed on).           *)
(***************************************************************************)

\* the text of a Parse error: fmt_err!("<text> {}", tok)
Msg(text, tok) == [text |-> text, tok |-> tok]
\* bounds of the termination argument: the loop turns and recursive calls a
\* parse_stmt() is given for each byte of its source, and on top of them
TurnsPerByte == 2
TurnsAtEnd == 2

\* fmt_err!("unexpected keyword: {} want: {}", tok, k)
MsgWant(text, tok, want) == [text |-> text, tok |-> tok, want |-> want]

\* a call that did not return Ok: the `?` of its caller, or a panic that unwinds
Failed(r) == r.ret.kind # "Ok"

\* ghost state of the termination argument: a Parser record that carries a
\* field turns counts in it the turns of the parser's loops and the calls of
\* its recursive functions
Turn(p) == IF "turns" \in DOMAIN p THEN [p EXCEPT !.turns = @ + 1] ELSE p

\* the turns a counting parser is given on its source
TurnBudget(p) == TurnsPerByte * Len(p.lexer.origin_str) + TurnsAtEnd

\* the counting parser has used up its turns
OutOfTurns(p) == "turns" \in DOMAIN p /\ p.turns >= TurnBudget(p)

\* a loop or a recursion that was still running when the turns were used up
Diverged(p) == [p |-> p, ret |-> [kind |-> "Diverged"]]

\* next_token: `self.pre_token = self.peek_token.clone(); self.peek_token = <r>; &self.pre_token`
ShiftToken(p, r) ==
    IF r.tok.kind # "Ok"
    THEN [p |-> [p EXCEPT !.pre_token = p.peek_token, !.lexer = r.lx], ret |-> Panic]
    ELSE [p |-> [p EXCEPT !.lexer = r.lx, !.pre_token = p.peek_token,
                           !.peek_token = r.tok.v],
          ret |-> Ok(p.peek_token)]

\* Parser::next_token
parser_next_token(p) == ShiftToken(p, lexer_next_token(p.lexer))

\* new_parser, update: `p.pre_token = p.peek_token.clone(); p.peek_token = <r2>`
FillSecond(r1, r2) ==
    IF r2.tok.kind # "Ok"
    THEN [p |-> [lexer |-> r2.lx, pre_token |-> r1.tok.v, peek_token |-> r1.tok.v],
          ret |-> Panic]
    ELSE [p |-> [lexer |-> r2.lx, pre_token |-> r1.tok.v, peek_token |-> r2.tok.v],
          ret |-> Ok(TRUE)]

\* new_parser, update: `p.peek_token = <r1>` and what follows
FillFirst(p, r1) ==
    IF r1.tok.kind # "Ok" THEN [p |-> [p EXCEPT !.lexer = r1.lx], ret |-> Panic]
    ELSE FillSecond(r1, lexer_next_token(r1.lx))

\* the three statements that fill pre_token and peek_token, in new_parser and update
fill_tokens(p) == FillFirst(p, lexer_next_token(p.lexer))

\* Parser::new_parser
new_parser(sql_str) ==
    fill_tokens([lexer |-> new_lexer(sql_str), pre_token |-> Tok("Eof"),
                 peek_token |-> Tok("Eof")])

\* Parser::update that replaces the buffer and keeps the two tokens read ahead
parser_update_keep_tokens(p, sql_str) ==
    [p |-> [p EXCEPT !.lexer = lexer_update(p.lexer, sql_str)], ret |-> Ok(TRUE)]

\* Parser::update
parser_update(p, sql_str) ==
    fill_tokens([p EXCEPT !.lexer = lexer_update(p.lexer, sql_str)])

\* `*<r> == t`
IsToken(r, t) == IF Failed(r) THEN r ELSE [p |-> r.p, ret |-> Ok(r.ret.v = t)]

\* Parser::next_if_token
next_if_token(p, t) == IsToken(parser_next_token(p), t)

\* Parser::next_if_keyword
next_if_keyword(p, k) == IsToken(parser_next_token(p), KeyWord(k))

\* next_expected_keyword: `if *t == Token::KeyWord(k) { Ok(()) } else { Err(..) }`
ExpectKeyword(r, k) ==
    IF Failed(r) THEN r
    ELSE IF r.ret.v = KeyWord(k) THEN [p |-> r.p, ret |-> Ok(TRUE)]
    ELSE [p |-> r.p, ret |-> Err("Parse", MsgWant("unexpected keyword", r.ret.v, k))]

\* Parser::next_expected_keyword
next_expected_keyword(p, k) == ExpectKeyword(parser_next_token(p), k)

\* next_ident: the match on the token
ExpectIdent(r) ==
    IF Failed(r) THEN r
    ELSE IF r.ret.v.t = "Ident" THEN [p |-> r.p, ret |-> Ok(r.ret.v.text)]
    ELSE [p |-> r.p, ret |-> Err("Parse", Msg("expected: Token::Ident but get", r.ret.v))]

\* Parser::next_ident
next_ident(p) == ExpectIdent(parser_next_token(p))

RECURSIVE DecimalValue(_)
\* the number a run of ASCII digits writes
DecimalValue(text) ==
    IF text = <<>> THEN 0
    ELSE 10 * DecimalValue(SubSeq(text, 1, Len(text) - 1)) + (text[Len(text)] - 48)

\* n.parse::<u64>().ok(); the sources of the model keep a number far below u64::MAX
parse_u64(text) ==
    IF text # <<>> /\ \A i \in 1..Len(text) : text[i] \in 48..57
    THEN Some(DecimalValue(text))
    ELSE None

\* Statement::Begin(BeginStmt { is_readonly, version })
BeginStmt(is_readonly, version) ==
    [kind |-> "Begin", is_readonly |-> is_readonly, version |-> version]

\* parse_transaction_stmt, BEGIN: `match self.next_token() { Token::Number(n) => .., t => Err }`
begin_version(r, is_readonly) ==
    IF Failed(r) THEN r
    ELSE IF r.ret.v.t = "Number"
    THEN [p |-> r.p, ret |-> Ok(BeginStmt(is_readonly, parse_u64(r.ret.v.text)))]
    ELSE [p |-> r.p, ret |-> Err("Parse", Msg("unexpected token: expected: Number", r.ret.v))]

\* `self.next_expected_keyword(Keyword::Time)?` and what follows
begin_time(r, is_readonly) ==
    IF Failed(r) THEN r ELSE begin_version(parser_next_token(r.p), is_readonly)

\* `self.next_expected_keyword(Keyword::System)?` and what follows
begin_system(r, is_readonly) ==
    IF Failed(r) THEN r ELSE begin_time(next_expected_keyword(r.p, "Time"), is_readonly)

\* `self.next_expected_keyword(Keyword::Of)?` and what follows
begin_of(r, is_readonly) ==
    IF Failed(r) THEN r ELSE begin_system(next_expected_keyword(r.p, "System"), is_readonly)

\* `if self.next_if_keyword(Keyword::As) { .. }` and what follows
begin_as(r, is_readonly) ==
    IF Failed(r) THEN r
    ELSE IF ~r.ret.v THEN [p |-> r.p, ret |-> Ok(BeginStmt(is_readonly, None))]
    ELSE begin_of(next_expected_keyword(r.p, "Of"), is_readonly)

\* parse_transaction_stmt, BEGIN: from `if self.next_if_keyword(Keyword::As)` on
begin_as_of(p, is_readonly) == begin_as(next_if_keyword(p, "As"), is_readonly)

\* `match self.next_token() { Only => is_readonly = true, Write => is_readonly = false, t => Err }`
begin_only_write(r) ==
    IF Failed(r) THEN r
    ELSE IF r.ret.v \in {KeyWord("Only"), KeyWord("Write")}
    THEN begin_as_of(r.p, r.ret.v = KeyWord("Only"))
    ELSE [p |-> r.p, ret |-> Err("Parse", Msg("unexpected token", r.ret.v))]

\* `if self.next_if_token(Token::KeyWord(Keyword::Read)) { .. }` and what follows
begin_read(r) ==
    IF Failed(r) THEN r
    ELSE IF r.ret.v THEN begin_only_write(parser_next_token(r.p))
    ELSE begin_as_of(r.p, FALSE)

\* `self.next_if_keyword(Keyword::Transaction);` and what follows
begin_transaction(r) ==
    IF Failed(r) THEN r ELSE begin_read(next_if_token(r.p, KeyWord("Read")))

\* parse_transaction_stmt: `self.next_token(); Ok(Statement::Commit)`, and Rollback
end_transaction(r, kind) ==
    IF Failed(r) THEN r ELSE [p |-> r.p, ret |-> Ok([kind |-> kind])]

\* Parser::parse_transaction_stmt
parse_transaction_stmt(p) ==
    CASE p.pre_token = KeyWord("Begin") ->
           begin_transaction(next_if_keyword(p, "Transaction"))
      [] p.pre_token = KeyWord("Commit") -> end_transaction(parser_next_token(p), "Commit")
      [] p.pre_token = KeyWord("Rollback") -> end_transaction(parser_next_token(p), "Rollback")
      [] OTHER -> [p |-> p, ret |-> Err("Parse", Msg("unexpected token", p.pre_token))]

\* SetVariableType::Transaction(level)
SetTransaction(level) == [kind |-> "Transaction", level |-> level]

\* a match on peek_token that ends the statement: the level of the keyword, or Err
LevelOfPeek(r, levels) ==
    IF Failed(r) THEN r
    ELSE IF r.p.peek_token.t = "KeyWord" /\ r.p.peek_token.k \in DOMAIN levels
    THEN [p |-> r.p, ret |-> Ok(SetTransaction(levels[r.p.peek_token.k]))]
    ELSE [p |-> r.p, ret |-> Err("Parse", Msg("unexpected token", r.p.peek_token))]

\* parse_set_transaction: `match &self.peek_token { .. }`
isolation_level(r) ==
    IF Failed(r) THEN r
    ELSE CASE r.p.peek_token = KeyWord("Read") ->
                LevelOfPeek(parser_next_token(r.p),
                            [Committed |-> "ReadCommitted", Uncommitted |-> "ReadUncommitted"])
           [] r.p.peek_token = KeyWord("Repeatable") ->
                LevelOfPeek(parser_next_token(r.p), [Read |-> "RepeatableRead"])
           [] OTHER -> LevelOfPeek(r, [Serializable |-> "Serializable"])

\* `self.next_expected_keyword(Keyword::Isolation)?` and what follows
set_isolation(r) ==
    IF Failed(r) THEN r ELSE isolation_level(next_expected_keyword(r.p, "Level"))

\* `self.next_token();` and what follows
set_transaction(r) ==
    IF Failed(r) THEN r ELSE set_isolation(next_expected_keyword(r.p, "Isolation"))

\* Parser::parse_set_transaction
parse_set_transaction(p) == set_transaction(parser_next_token(p))

\* parse_set_stmt: `Ok(Statement::Set(SetStmt { set_value: self.parse_set_transaction()?, is_session }))`
set_stmt(r, is_session) ==
    IF Failed(r) THEN r
    ELSE [p |-> r.p,
          ret |-> Ok([kind |-> "Set", set_value |-> r.ret.v, is_session |-> is_session])]

\* parse_set_stmt, the SESSION and GLOBAL arms: `self.next_token(); match self.peek_token.clone() { .. }`
set_scope(r, is_session) ==
    IF Failed(r) THEN r
    ELSE IF r.p.peek_token = KeyWord("Transaction")
    THEN set_stmt(parse_set_transaction(r.p), is_session)
    ELSE [p |-> r.p, ret |-> Err("Parse", Msg("unexpected token", r.p.peek_token))]

\* Parser::parse_set_stmt
parse_set_stmt(p) ==
    CASE p.peek_token = KeyWord("Session") -> set_scope(parser_next_token(p), TRUE)
      [] p.peek_token = KeyWord("Global") -> set_scope(parser_next_token(p), FALSE)
      [] p.peek_token = KeyWord("Transaction") -> set_stmt(parse_set_transaction(p), TRUE)
      [] OTHER -> [p |-> p, ret |-> Err("Parse", Msg("unexpected token", p.peek_token))]

\* Parser::parse_show_stmt
parse_show_stmt(p) ==
    CASE p.peek_token = KeyWord("Tables") -> [p |-> p, ret |-> Ok([kind |-> "ShowTables"])]
      [] p.peek_token = KeyWord("Databases") -> [p |-> p, ret |-> Ok([kind |-> "ShowDatabase"])]
      [] OTHER -> [p |-> p, ret |-> Err("Parse", Msg("unexpected token", p.peek_token))]

\* parse_drop_stmt: `Ok(Statement::DropTable(DropTableStmt { table_name: self.next_ident()? }))`
drop_table(r) ==
    IF Failed(r) THEN r
    ELSE [p |-> r.p, ret |-> Ok([kind |-> "DropTable", table_name |-> r.ret.v])]

\* parse_drop_stmt: `self.next_expected_keyword(Keyword::Table)?` and what follows
drop_name(r) == IF Failed(r) THEN r ELSE drop_table(next_ident(r.p))

\* Parser::parse_drop_stmt
parse_drop_stmt(p) == drop_name(next_expected_keyword(p, "Table"))

\* ---------------------------------------------------------------------------
\* Expressions (parser/operator.rs, parser/mod.rs parse_expression and below)
\* ---------------------------------------------------------------------------

\* enum Precedence, in its derived order
PrecedenceOrder ==
    [Lowest |-> 0, Equals |-> 1, LessGreater |-> 2, Sum |-> 3, Product |-> 4,
     Prefix |-> 5, Call |-> 6]

\* operator::is_prefix_oper
is_prefix_oper(t) ==
    \/ t.t \in {"Exclamation", "Minus", "Add", "Number", "LeftParen", "Ident"}
    \/ t \in {KeyWord("True"), KeyWord("False")}

\* operator::is_infix_oper
is_infix_oper(t) ==
    \/ t.t \in {"Add", "Equal", "GreaterThan", "GreaterThanOrEqual", "LessThan",
                "LessThanOrEqual", "Minus", "NotEqual", "Percent", "Slash",
                "Asterisk", "Caret", "LeftParen"}
    \/ t \in {KeyWord("And"), KeyWord("Like"), KeyWord("Or")}

\* match_precedence that gives * and / the precedence of + and -
match_precedence_flat(t) ==
    CASE t.t \in {"Equal", "NotEqual"} -> "Equals"
      [] t.t \in {"LessThan", "LessThanOrEqual", "GreaterThan", "GreaterThanOrEqual"} ->
            "LessGreater"
      [] t.t = "KeyWord" -> IF t.k \in {"And", "Or", "Not"} THEN "Sum" ELSE "Lowest"
      [] t.t \in {"Add", "Minus", "Slash", "Asterisk"} -> "Sum"
      [] t.t = "LeftParen" -> "Call"
      [] OTHER -> "Lowest"

\* operator::match_precedence
match_precedence(t) ==
    CASE t.t \in {"Equal", "NotEqual"} -> "Equals"
      [] t.t \in {"LessThan", "LessThanOrEqual", "GreaterThan", "GreaterThanOrEqual"} ->
            "LessGreater"
      [] t.t = "KeyWord" -> IF t.k \in {"And", "Or", "Not"} THEN "Sum" ELSE "Lowest"
      [] t.t \in {"Add", "Minus"} -> "Sum"
      [] t.t \in {"Slash", "Asterisk"} -> "Product"
      [] t.t = "LeftParen" -> "Call"
      [] OTHER -> "Lowest"

\* Parser::peek_token_predence
peek_token_predence(p) == match_precedence(p.peek_token)

\* a fixed fmt_err! message
MsgText(text) == [text |-> text]

\* the message of an operator whose operand did not parse:
\* fmt_err!("Operation::<op> exp is not valid!")
MsgOperation(op) == [text |-> "Operation exp is not valid!", op |-> op]

\* `<r>.map_err(|_| Error::Parse(msg))`
map_err(r, msg) ==
    IF r.ret.kind = "Err" THEN [p |-> r.p, ret |-> Err("Parse", msg)] ELSE r

\* Parser::peek_if_token
peek_if_token(p, t) ==
    IF p.peek_token = t THEN IsToken(parser_next_token(p), t)
    ELSE [p |-> p, ret |-> Ok(FALSE)]

\* next_expected_token: `if *token == t { Ok(()) } else { Err(..) }`
ExpectToken(r, t) ==
    IF Failed(r) THEN r
    ELSE IF r.ret.v = t THEN [p |-> r.p, ret |-> Ok(TRUE)]
    ELSE [p |-> r.p, ret |-> Err("Parse", MsgWant("unexpected token", r.ret.v, t))]

\* Parser::next_expected_token
next_expected_token(p, t) == ExpectToken(parser_next_token(p), t)

\* the number of '.' in a Number token's text
RECURSIVE Periods(_)
Periods(text) ==
    IF text = <<>> THEN 0
    ELSE (IF text[1] = Ch(".") THEN 1 ELSE 0) + Periods(Tail(text))

\* the digits of text before its first '.'
RECURSIVE BeforePeriod(_)
BeforePeriod(text) ==
    IF text = <<>> \/ text[1] = Ch(".") THEN <<>>
    ELSE <<text[1]>> \o BeforePeriod(Tail(text))

\* a run of digits without its trailing zeros
RECURSIVE TrimZeros(_)
TrimZeros(text) ==
    IF text # <<>> /\ text[Len(text)] = Ch("0")
    THEN TrimZeros(SubSeq(text, 1, Len(text) - 1))
    ELSE text

\* str::parse::<f64> on a Number token's text (digits and '.', a digit first):
\* an error unless there is exactly one '.', else the value, written as its
\* integer part and its fraction digits
parse_f64(text) ==
    IF Periods(text) # 1 THEN Err("Parse", MsgText("invalid float literal"))
    ELSE Ok([int |-> DecimalValue(BeforePeriod(text)),
             frac |-> TrimZeros(SubSeq(text, Len(BeforePeriod(text)) + 2, Len(text)))])

\* str::parse::<i64> on a run of digits; the sources keep every number far
\* below i64::MAX, where it cannot fail
parse_i64(text) == Ok(DecimalValue(text))

\* parse_prefix_expr: the arm of Token::Number(n)
number_literal(p, n) ==
    IF Periods(n) > 0
    THEN IF parse_f64(n).kind # "Ok" THEN [p |-> p, ret |-> parse_f64(n)]
         ELSE [p |-> p, ret |-> Ok(Some(Literal("Float", parse_f64(n).v)))]
    ELSE IF parse_i64(n).kind # "Ok" THEN [p |-> p, ret |-> parse_i64(n)]
         ELSE [p |-> p, ret |-> Ok(Some(Literal("Int", parse_i64(n).v)))]

\* the Operation of a prefix operator token, and the name in its error message
PrefixOperation == [Exclamation |-> "Not", Add |-> "Assert", Minus |-> "Negate"]

\* the Operation of an infix operator token
InfixOperation(t) ==
    CASE t.t = "Add" -> "Add"
      [] t.t = "Equal" -> "Equal"
      [] t.t = "GreaterThan" -> "GreaterThan"
      [] t.t = "GreaterThanOrEqual" -> "GreaterThanOrEqual"
      [] t.t = "LessThan" -> "LessThan"
      [] t.t = "LessThanOrEqual" -> "LessThanOrEqual"
      [] t.t = "Minus" -> "Subtract"
      [] t.t = "NotEqual" -> "NotEqual"
      [] t = KeyWord("And") -> "And"
      [] t = KeyWord("Or") -> "Or"
      [] t = KeyWord("Like") -> "Like"
      [] t.t = "Percent" -> "Modulo"
      [] t.t = "Asterisk" -> "Multiply"
      [] t.t = "Slash" -> "Divide"
      [] OTHER -> "None"

RECURSIVE parse_expression(_, _)
RECURSIVE expression_lhs(_, _)
RECURSIVE expression_loop(_, _, _)
RECURSIVE expression_infix(_, _, _)
RECURSIVE expression_next(_, _)
RECURSIVE parse_prefix_expr(_)
RECURSIVE prefix_operand(_, _)
RECURSIVE prefix_operation(_, _)
RECURSIVE paren_inner(_)
RECURSIVE paren_close(_)
RECURSIVE paren_closed(_, _)
RECURSIVE field_name(_, _)
RECURSIVE field_named(_, _, _)
RECURSIVE parse_infix_expr(_, _)
RECURSIVE infix_rhs(_, _, _, _)
RECURSIVE infix_operation(_, _, _)
RECURSIVE function_args(_, _)
RECURSIVE function_all(_, _)
RECURSIVE function_all_closed(_, _)
RECURSIVE function_empty(_, _)
RECURSIVE function_list(_, _)
RECURSIVE parse_expression_list(_)
RECURSIVE list_empty(_)
RECURSIVE list_first(_)
RECURSIVE list_pushed(_, _)
RECURSIVE list_comma(_, _)
RECURSIVE list_more(_, _)
RECURSIVE list_next(_, _)
RECURSIVE list_close(_, _)

\* Parser::parse_expression
parse_expression_body(p, precedence) ==
    IF ~is_prefix_oper(p.pre_token)
    THEN [p |-> p, ret |-> Err("Parse", Msg("No prefix Operator Func for", p.pre_token))]
    ELSE expression_lhs(parse_prefix_expr(p), precedence)

\* parse_expression, every call counted
parse_expression(p, precedence) ==
    IF OutOfTurns(p) THEN Diverged(p) ELSE parse_expression_body(Turn(p), precedence)

\* parse_expression: `let mut lhs = match <r>? { Some(exp) => exp, None => return Err(..) }`
expression_lhs(r, precedence) ==
    IF Failed(r) THEN r
    ELSE IF ~r.ret.v.some
    THEN [p |-> r.p, ret |-> Err("Parse", MsgText("ParsePrefixExpression exp is None"))]
    ELSE expression_loop(r.p, r.ret.v.v, precedence)

\* parse_expression: the while loop, lhs being the expression read so far
expression_turn(p, lhs, precedence) ==
    IF /\ p.pre_token # Tok("Semicolon")
       /\ PrecedenceOrder[precedence] < PrecedenceOrder[peek_token_predence(p)]
    THEN IF ~is_infix_oper(p.peek_token) THEN [p |-> p, ret |-> Ok(lhs)]
         ELSE expression_infix(parser_next_token(p), lhs, precedence)
    ELSE [p |-> p, ret |-> Ok(lhs)]

\* expression_loop, every turn of the loop counted
expression_loop(p, lhs, precedence) ==
    IF OutOfTurns(p) THEN Diverged(p) ELSE expression_turn(Turn(p), lhs, precedence)

\* parse_expression: `self.next_token(); lhs = self.parse_infix_expr(lhs)?`
expression_infix(r, lhs, precedence) ==
    IF Failed(r) THEN r ELSE expression_next(parse_infix_expr(r.p, lhs), precedence)

\* parse_expression: `lhs = <r>?` and the next turn of the loop
expression_next(r, precedence) ==
    IF Failed(r) THEN r ELSE expression_loop(r.p, r.ret.v, precedence)

\* Parser::parse_prefix_expr
parse_prefix_expr(p) ==
    CASE p.pre_token.t \in {"Exclamation", "Add", "Minus"} ->
            prefix_operand(parser_next_token(p), PrefixOperation[p.pre_token.t])
      [] p.pre_token.t = "Number" -> number_literal(p, p.pre_token.text)
      [] p.pre_token.t = "LeftParen" -> paren_inner(parser_next_token(p))
      [] p.pre_token.t = "Ident" ->
            CASE p.peek_token.t = "LeftParen" ->
                    [p |-> p, ret |-> Ok(Some(Literal("String", p.pre_token.text)))]
              [] p.peek_token.t = "Period" ->
                    field_name(parser_next_token(p), p.pre_token.text)
              [] OTHER -> [p |-> p, ret |-> Ok(Some(Field(None, p.pre_token.text)))]
      [] p.pre_token.t = "String" ->
            [p |-> p, ret |-> Ok(Some(Literal("String", p.pre_token.text)))]
      [] p.pre_token = KeyWord("True") -> [p |-> p, ret |-> Ok(Some(Literal("Bool", TRUE)))]
      [] p.pre_token = KeyWord("False") -> [p |-> p, ret |-> Ok(Some(Literal("Bool", FALSE)))]
      [] p.pre_token = KeyWord("Null") -> [p |-> p, ret |-> Ok(Some(Literal("Null", 0)))]
      [] OTHER -> [p |-> p, ret |-> Err("Parse", Msg("No prefixOperatorFunc for", p.pre_token))]

\* parse_prefix_expr, the arms of !, + and -: `self.next_token();` and the operand
prefix_operand(r, op) ==
    IF Failed(r) THEN r ELSE prefix_operation(parse_expression(r.p, "Prefix"), op)

\* parse_prefix_expr: `Ok(Some(Expression::Operation(op(Box::new(<r>.map_err(..)?)))))`
prefix_operation(r, op) ==
    IF Failed(r) THEN map_err(r, MsgOperation(op))
    ELSE [p |-> r.p, ret |-> Ok(Some(UnOp(op, r.ret.v)))]

\* parse_prefix_expr, the arm of (: `self.next_token();` and the expression inside
paren_inner(r) == IF Failed(r) THEN r ELSE paren_close(parse_expression(r.p, "Lowest"))

\* parse_prefix_expr: `let exp = <r>?; if !self.peek_if_token(Token::RightParen) ..`
paren_close(r) ==
    IF Failed(r) THEN r ELSE paren_closed(peek_if_token(r.p, Tok("RightParen")), r.ret.v)

\* parse_prefix_expr: `if !<r> { return Ok(None); } Ok(Some(exp))`
paren_closed(r, exp) ==
    IF Failed(r) THEN r
    ELSE [p |-> r.p, ret |-> Ok(IF r.ret.v THEN Some(exp) ELSE None)]

\* parse_prefix_expr, the arm of `i .`: `self.next_token();` and the column name
field_name(r, i) ==
    IF Failed(r) THEN r
    ELSE IF r.p.peek_token.t = "Ident"
    THEN field_named(parser_next_token(r.p), i, r.p.peek_token.text)
    ELSE [p |-> r.p, ret |-> Err("Parse", MsgText("expected: Token::Ident"))]

\* parse_prefix_expr: `Ok(Some(Expression::Field(Some(i), { self.next_token(); j })))`
field_named(r, i, j) ==
    IF Failed(r) THEN r ELSE [p |-> r.p, ret |-> Ok(Some(Field(Some(i), j)))]

\* Parser::parse_infix_expr
parse_infix_expr(p, exp) ==
    CASE InfixOperation(p.pre_token) # "None" ->
            infix_rhs(parser_next_token(p), exp, InfixOperation(p.pre_token),
                      match_precedence(p.pre_token))
      [] p.pre_token.t = "LeftParen" ->
            IF exp.kind = "Literal" /\ exp.lit = "String"
            THEN function_args(p, exp.val)
            ELSE [p |-> p, ret |-> Err("Parse",
                      MsgText("Operation::LeftParen exp is not Literal::String"))]
      [] OTHER -> [p |-> p, ret |-> Err("Parse", Msg("No infixOperatorFunc for", p.pre_token))]

\* parse_infix_expr, a binary operator: `self.next_token();` and the right operand
infix_rhs(r, exp, op, precedence) ==
    IF Failed(r) THEN r ELSE infix_operation(parse_expression(r.p, precedence), exp, op)

\* parse_infix_expr: `Ok(Expression::Operation(op(Box::new(exp), Box::new(<r>.map_err(..)?))))`
infix_operation(r, exp, op) ==
    IF Failed(r) THEN map_err(r, MsgOperation(op))
    ELSE [p |-> r.p, ret |-> Ok(BinOp(op, exp, r.ret.v))]

\* parse_infix_expr, the arm of (: the arguments of the function called name
function_args(p, name) ==
    CASE p.peek_token.t = "Asterisk" -> function_all(parser_next_token(p), name)
      [] p.peek_token.t = "RightParen" -> function_empty(parser_next_token(p), name)
      [] OTHER -> function_list(parse_expression_list(p), name)

\* parse_infix_expr, `name(*`: `self.next_token(); match self.peek_token { .. }`
function_all(r, name) ==
    IF Failed(r) THEN r
    ELSE IF r.p.peek_token.t = "RightParen"
    THEN function_all_closed(parser_next_token(r.p), name)
    ELSE [p |-> r.p, ret |-> Err("Parse",
              MsgText("Operation::LeftParen exp is not Literal::String"))]

\* parse_infix_expr, `name(*)`: `self.next_token(); vec![Expression::Literal(Literal::All)]`
function_all_closed(r, name) ==
    IF Failed(r) THEN r
    ELSE [p |-> r.p, ret |-> Ok(Function(name, <<Literal("All", 0)>>))]

\* parse_infix_expr, `name()`: `self.next_token(); vec![]`
function_empty(r, name) ==
    IF Failed(r) THEN r ELSE [p |-> r.p, ret |-> Ok(Function(name, <<>>))]

\* parse_infix_expr: `match self.parse_expression_list()? { Some(e) => e, None => return Err(..) }`
function_list(r, name) ==
    IF Failed(r) THEN r
    ELSE IF ~r.ret.v.some
    THEN [p |-> r.p, ret |-> Err("Parse", MsgText("Operation::LeftParen exp is None"))]
    ELSE [p |-> r.p, ret |-> Ok(Function(name, r.ret.v.v))]

\* Parser::parse_expression_list
parse_expression_list(p) ==
    IF p.peek_token = Tok("RightParen")
    THEN list_empty(peek_if_token(p, Tok("RightParen")))
    ELSE list_first(parser_next_token(p))

\* parse_expression_list: `self.next_token(); return Ok(Some(exprs));`
list_empty(r) ==
    IF Failed(r) THEN r ELSE list_pushed(parser_next_token(r.p), <<>>)

\* parse_expression_list: `self.next_token(); exprs.push(self.parse_expression(..).map_err(..)?)`
list_first(r) ==
    IF Failed(r) THEN r
    ELSE list_comma(map_err(parse_expression(r.p, "Lowest"),
                            MsgText("Operation::LeftParen exp is not valid!")), <<>>)

\* parse_expression_list: the list returned once the closing ) is read
list_pushed(r, exprs) == IF Failed(r) THEN r ELSE [p |-> r.p, ret |-> Ok(Some(exprs))]

\* parse_expression_list: `exprs.push(<r>?); while self.peek_if_token(Token::Comma) ..`
list_comma(r, exprs) ==
    IF Failed(r) THEN r
    ELSE IF r.p.peek_token = Tok("Comma")
    THEN list_more(peek_if_token(r.p, Tok("Comma")), exprs \o <<r.ret.v>>)
    ELSE list_close(peek_if_token(r.p, Tok("RightParen")), exprs \o <<r.ret.v>>)

\* parse_expression_list, after a comma: `self.next_token();` and the next expression
list_more(r, exprs) ==
    IF Failed(r) THEN r
    ELSE list_next(parser_next_token(r.p), exprs)

\* parse_expression_list: `exprs.push(self.parse_expression(..).map_err(..)?)` after a comma
list_next(r, exprs) ==
    IF Failed(r) THEN r
    ELSE list_comma(map_err(parse_expression(r.p, "Lowest"),
                            MsgText("parse_expression_list exp is not valid!")), exprs)

\* parse_expression_list: `if !<r> { return Ok(None); } Ok(Some(exprs))`
list_close(r, exprs) ==
    IF Failed(r) THEN r
    ELSE [p |-> r.p, ret |-> Ok(IF r.ret.v THEN Some(exprs) ELSE None)]

\* ---------------------------------------------------------------------------
\* SELECT and UPDATE (parser/mod.rs parse_select_stmt .. parse_update_stmt)
\* ---------------------------------------------------------------------------

\* the optional alias after a select expression or a table name:
\* `match self.peek_token.clone() { As => .., Ident(ident) => .., _ => None }`
alias_ident(r, ident) == IF Failed(r) THEN r ELSE [p |-> r.p, ret |-> Ok(Some(ident))]

\* the alias after AS: an identifier, or the error whose message is text
alias_after_as(r, text) ==
    IF Failed(r) THEN r
    ELSE IF r.p.peek_token.t = "Ident"
    THEN alias_ident(parser_next_token(r.p), r.p.peek_token.text)
    ELSE [p |-> r.p, ret |-> Err("Parse", MsgText(text))]

\* the alias match of parse_clause_select and of parse_clause_from_table
clause_alias(p, text) ==
    CASE p.peek_token = KeyWord("As") -> alias_after_as(parser_next_token(p), text)
      [] p.peek_token.t = "Ident" -> alias_ident(parser_next_token(p), p.peek_token.text)
      [] OTHER -> [p |-> p, ret |-> Ok(None)]

RECURSIVE clause_select_loop(_, _)

\* parse_clause_select: `self.next_token(); match &self.pre_token { Comma => continue, _ => break }`
select_continue(r, selects) ==
    IF Failed(r) THEN r
    ELSE IF r.p.pre_token = Tok("Comma") THEN clause_select_loop(r.p, selects)
    ELSE [p |-> r.p, ret |-> Ok(selects)]

\* parse_clause_select: `selects.push((expr, alias));` and what follows
select_push(r, expr, selects) ==
    IF Failed(r) THEN r
    ELSE select_continue(parser_next_token(r.p),
                         selects \o <<[expr |-> expr, alias |-> r.ret.v]>>)

\* parse_clause_select: `let expr = <r>?;` and the alias
select_alias(r, selects) ==
    IF Failed(r) THEN r
    ELSE select_push(clause_alias(r.p, "AS is not valid!"), r.ret.v, selects)

\* parse_clause_select, `*` first: `self.next_token(); break;`
select_all(r, selects) == IF Failed(r) THEN r ELSE [p |-> r.p, ret |-> Ok(selects)]

\* parse_clause_select: `if <r> && selects.is_empty() { .. }` and the expression
select_star(r, selects) ==
    IF Failed(r) THEN r
    ELSE IF r.ret.v /\ selects = <<>> THEN select_all(parser_next_token(r.p), selects)
    ELSE select_alias(map_err(parse_expression(r.p, "Lowest"),
                              MsgText("SELECT expression is not valid!")), selects)

\* parse_clause_select: one turn of the loop
clause_select_turn(p, selects) == select_star(next_if_token(p, Tok("Asterisk")), selects)

\* clause_select_loop, every turn of the loop counted
clause_select_loop(p, selects) ==
    IF OutOfTurns(p) THEN Diverged(p) ELSE clause_select_turn(Turn(p), selects)

\* Parser::parse_clause_select
parse_clause_select(p) == clause_select_loop(p, <<>>)

\* parse_clause_from_table: `Ok(FromItem::Table { name, alias })`
from_table(r, name) ==
    IF Failed(r) THEN r ELSE [p |-> r.p, ret |-> Ok(FromTable(name, r.ret.v))]

\* parse_clause_from_table: the alias after the name
from_table_alias(r, name) ==
    IF Failed(r) THEN r ELSE from_table(clause_alias(r.p, "FROM AS is not valid!"), name)

\* Parser::parse_clause_from_table
parse_clause_from_table(p) ==
    IF p.peek_token.t = "Ident"
    THEN from_table_alias(parser_next_token(p), p.peek_token.text)
    ELSE [p |-> p, ret |-> Err("Parse", MsgText("FROM table_name is not valid!"))]

\* parse_clause_from_jointype: `self.next_token(); Ok(Some(join_type))`
join_type_of(r, join_type) ==
    IF Failed(r) THEN r ELSE [p |-> r.p, ret |-> Ok(Some(join_type))]

\* parse_clause_from_jointype: JOIN must follow, else there is no join
join_keyword(r, join_type) ==
    IF Failed(r) THEN r
    ELSE IF r.p.peek_token = KeyWord("Join")
    THEN join_type_of(parser_next_token(r.p), join_type)
    ELSE [p |-> r.p, ret |-> Ok(None)]

\* parse_clause_from_jointype after LEFT or RIGHT: an optional OUTER, then JOIN
join_side(r, join_type) ==
    IF Failed(r) THEN r
    ELSE CASE r.p.peek_token = KeyWord("Outer") ->
                 join_keyword(parser_next_token(r.p), join_type)
           [] r.p.peek_token = KeyWord("Join") ->
                 join_type_of(parser_next_token(r.p), join_type)
           [] OTHER -> [p |-> r.p, ret |-> Ok(None)]

\* Parser::parse_clause_from_jointype
parse_clause_from_jointype(p) ==
    CASE p.peek_token = KeyWord("Outer") -> join_keyword(parser_next_token(p), "Outer")
      [] p.peek_token = KeyWord("Inner") -> join_keyword(parser_next_token(p), "Inner")
      [] p.peek_token = KeyWord("Left") -> join_side(parser_next_token(p), "Left")
      [] p.peek_token = KeyWord("Right") -> join_side(parser_next_token(p), "Right")
      [] p.peek_token = KeyWord("Join") -> join_type_of(parser_next_token(p), "Inner")
      [] OTHER -> [p |-> p, ret |-> Ok(None)]

\* the keywords that end the FROM clause
FromEnd == {"Where", "Group", "Having", "Order", "Limit", "Offset"}

RECURSIVE from_loop(_, _)
RECURSIVE join_loop(_, _, _)

\* parse_clause_from, a token that is no keyword: `self.next_token(); break;`
from_done(r, froms) == IF Failed(r) THEN r ELSE [p |-> r.p, ret |-> Ok(froms)]

\* parse_clause_from: `froms.push(item); match &self.pre_token { .. }`
from_push(p, froms) ==
    IF p.pre_token.t = "KeyWord"
    THEN IF p.pre_token.k \in FromEnd THEN [p |-> p, ret |-> Ok(froms)]
         ELSE from_loop(p, froms)
    ELSE from_done(parser_next_token(p), froms)

\* parse_clause_from: `item = FromItem::Join { .., predicate: Some(<r>?) }`
join_predicate(r, left, right, join_type, froms) ==
    IF Failed(r) THEN r
    ELSE join_loop(r.p, FromJoin(left, right, join_type, Some(r.ret.v)), froms)

\* parse_clause_from, after ON: `self.next_token();` and the predicate
join_on_next(r, left, right, join_type, froms) ==
    IF Failed(r) THEN r
    ELSE join_predicate(map_err(parse_expression(r.p, "Lowest"),
                                MsgText("ON Predicate expression is not valid!")),
                        left, right, join_type, froms)

\* parse_clause_from: `self.next_expected_keyword(Keyword::On)?;` and what follows
join_on(r, left, right, join_type, froms) ==
    IF Failed(r) THEN r
    ELSE join_on_next(parser_next_token(r.p), left, right, join_type, froms)

\* parse_clause_from that reads no ON clause, whatever the join type
join_right_without_on(r, left, join_type, froms) ==
    IF Failed(r) THEN r
    ELSE join_loop(r.p, FromJoin(left, r.ret.v, join_type, None), froms)

\* parse_clause_from: `let predicate = match join_type { Outer => None, _ => .. }`
join_right(r, left, join_type, froms) ==
    IF Failed(r) THEN r
    ELSE IF join_type = "Outer"
    THEN join_loop(r.p, FromJoin(left, r.ret.v, join_type, None), froms)
    ELSE join_on(next_expected_keyword(r.p, "On"), left, r.ret.v, join_type, froms)

\* parse_clause_from: `if join_type.is_none() { break; }` and the right table
join_type_read(r, item, froms) ==
    IF Failed(r) THEN r
    ELSE IF ~r.ret.v.some THEN from_push(r.p, froms \o <<item>>)
    ELSE join_right(parse_clause_from_table(r.p), item, r.ret.v.v, froms)

\* parse_clause_from: one turn of the inner loop, item being the joins so far
join_turn(p, item, froms) == join_type_read(parse_clause_from_jointype(p), item, froms)

\* join_loop, every turn of the loop counted
join_loop(p, item, froms) ==
    IF OutOfTurns(p) THEN Diverged(p) ELSE join_turn(Turn(p), item, froms)

\* parse_clause_from: `let mut item = <r>?;` and the inner loop
from_joins(r, froms) == IF Failed(r) THEN r ELSE join_loop(r.p, r.ret.v, froms)

\* parse_clause_from: one turn of the outer loop
from_turn(p, froms) == from_joins(parse_clause_from_table(p), froms)

\* from_loop, every turn of the loop counted
from_loop(p, froms) ==
    IF OutOfTurns(p) THEN Diverged(p) ELSE from_turn(Turn(p), froms)

\* Parser::parse_clause_from
parse_clause_from(p) ==
    IF p.pre_token # KeyWord("From") THEN [p |-> p, ret |-> Ok(<<>>)]
    ELSE from_loop(p, <<>>)

\* parse_clause_where, parse_clause_having: `self.next_token(); exp` ends the clause
clause_exp_some(r, exp) == IF Failed(r) THEN r ELSE [p |-> r.p, ret |-> Ok(Some(exp))]

\* parse_clause_where, parse_clause_having: `let exp = <r>?;` and what follows
clause_exp_next(r) ==
    IF Failed(r) THEN r ELSE clause_exp_some(parser_next_token(r.p), r.ret.v)

\* parse_clause_where, parse_clause_having: `self.next_token();` and the expression
clause_exp(r, text) ==
    IF Failed(r) THEN r
    ELSE clause_exp_next(map_err(parse_expression(r.p, "Lowest"), MsgText(text)))

\* Parser::parse_clause_where
parse_clause_where(p) ==
    IF p.pre_token # KeyWord("Where") THEN [p |-> p, ret |-> Ok(None)]
    ELSE clause_exp(parser_next_token(p), "WHERE exp is not valid!")

\* Parser::parse_clause_having
parse_clause_having(p) ==
    IF p.pre_token # KeyWord("Having") THEN [p |-> p, ret |-> Ok(None)]
    ELSE clause_exp(parser_next_token(p), "HAVING exp is not valid!")

RECURSIVE group_by_loop(_, _)

\* parse_clause_group_by: `self.next_token(); match self.peek_token { Comma => continue, _ => break }`
group_by_continue(r, exprs) ==
    IF Failed(r) THEN r
    ELSE IF r.p.peek_token = Tok("Comma") THEN group_by_loop(r.p, exprs)
    ELSE [p |-> r.p, ret |-> Ok(exprs)]

\* parse_clause_group_by: `exprs.push(<r>?);` and what follows
group_by_push(r, exprs) ==
    IF Failed(r) THEN r
    ELSE group_by_continue(parser_next_token(r.p), exprs \o <<r.ret.v>>)

\* parse_clause_group_by: one turn of the loop
group_by_turn(p, exprs) ==
    group_by_push(map_err(parse_expression(p, "Lowest"),
                          MsgText("GROUP BY exp is not valid!")), exprs)

\* group_by_loop, every turn of the loop counted
group_by_loop(p, exprs) ==
    IF OutOfTurns(p) THEN Diverged(p) ELSE group_by_turn(Turn(p), exprs)

\* parse_clause_group_by: `self.next_token();` before the loop
group_by_first(r) == IF Failed(r) THEN r ELSE group_by_loop(r.p, <<>>)

\* parse_clause_group_by: `self.next_expected_keyword(Keyword::By)?;` and what follows
group_by_next(r) == IF Failed(r) THEN r ELSE group_by_first(parser_next_token(r.p))

\* Parser::parse_clause_group_by
parse_clause_group_by(p) ==
    IF p.pre_token # KeyWord("Group") THEN [p |-> p, ret |-> Ok(<<>>)]
    ELSE group_by_next(next_expected_keyword(p, "By"))

RECURSIVE order_loop(_, _)

\* parse_clause_order: `if !self.next_if_token(Token::Comma) { break; }`
order_comma(r, orders) ==
    IF Failed(r) THEN r
    ELSE IF r.ret.v THEN order_loop(r.p, orders)
    ELSE [p |-> r.p, ret |-> Ok(orders)]

\* parse_clause_order: `self.next_token(); exp` and the direction read in pre_token
order_type(r, exp, orders) ==
    IF Failed(r) THEN r
    ELSE order_comma(next_if_token(r.p, Tok("Comma")),
                     orders \o <<[expr |-> exp,
                                  by |-> IF r.p.pre_token = KeyWord("Desc")
                                         THEN "Desc" ELSE "Asc"]>>)

\* parse_clause_order: `let exp = <r>?;` and what follows
order_exp(r, orders) ==
    IF Failed(r) THEN r ELSE order_type(parser_next_token(r.p), r.ret.v, orders)

\* parse_clause_order: one turn of the loop
order_turn(p, orders) ==
    order_exp(map_err(parse_expression(p, "Lowest"),
                      MsgText("ORDER BY exp is not valid!")), orders)

\* order_loop, every turn of the loop counted
order_loop(p, orders) ==
    IF OutOfTurns(p) THEN Diverged(p) ELSE order_turn(Turn(p), orders)

\* parse_clause_order: `self.next_token();` before the loop
order_first(r) == IF Failed(r) THEN r ELSE order_loop(r.p, <<>>)

\* parse_clause_order: `self.next_expected_keyword(Keyword::By)?;` and what follows
order_next(r) == IF Failed(r) THEN r ELSE order_first(parser_next_token(r.p))

\* Parser::parse_clause_order
parse_clause_order(p) ==
    IF p.pre_token # KeyWord("Order") THEN [p |-> p, ret |-> Ok(<<>>)]
    ELSE order_next(next_expected_keyword(p, "By"))

\* `if v.is_empty() { None } else { Some(v) }`
NonEmpty(v) == IF v = <<>> THEN None ELSE Some(v)

\* parse_select_stmt: `Ok(Statement::Select(SelectStmt { .. }))`
select_stmt(p, s) == [p |-> p, ret |-> Ok([kind |-> "Select", select |-> s])]

\* parse_select_stmt: `limit: Some(<r>?)`
select_limit_set(r, s) ==
    IF Failed(r) THEN r ELSE select_stmt(r.p, [s EXCEPT !.limit = Some(r.ret.v)])

\* parse_select_stmt, limit: the second `self.next_token();` and the expression
select_limit_exp(r, s) ==
    IF Failed(r) THEN r
    ELSE select_limit_set(map_err(parse_expression(r.p, "Lowest"),
                                  MsgText("LIMIT exp is not valid!")), s)

\* parse_select_stmt, limit: the first `self.next_token();`
select_limit_next(r, s) ==
    IF Failed(r) THEN r ELSE select_limit_exp(parser_next_token(r.p), s)

\* parse_select_stmt: `limit: match &self.peek_token { KeyWord(Limit) => .., _ => None }`
select_limit(p, s) ==
    IF p.peek_token = KeyWord("Limit") THEN select_limit_next(parser_next_token(p), s)
    ELSE select_stmt(p, s)

\* parse_select_stmt: `offset: Some(<r>?)`
select_offset_set(r, s) ==
    IF Failed(r) THEN r ELSE select_limit(r.p, [s EXCEPT !.offset = Some(r.ret.v)])

\* parse_select_stmt, offset: `self.next_token();` and the expression
select_offset_exp(r, s) ==
    IF Failed(r) THEN r
    ELSE select_offset_set(map_err(parse_expression(r.p, "Lowest"),
                                   MsgText("OFFSET exp is not valid!")), s)

\* parse_select_stmt: `offset: match &self.pre_token { KeyWord(Offset) => .., _ => None }`
select_offset(p, s) ==
    IF p.pre_token = KeyWord("Offset") THEN select_offset_exp(parser_next_token(p), s)
    ELSE select_limit(p, s)

\* parse_select_stmt: `order: NonEmpty(<r>?)`
select_order(r, s) ==
    IF Failed(r) THEN r ELSE select_offset(r.p, [s EXCEPT !.order = NonEmpty(r.ret.v)])

\* parse_select_stmt: `having: <r>?`
select_having(r, s) ==
    IF Failed(r) THEN r
    ELSE select_order(parse_clause_order(r.p), [s EXCEPT !.having = r.ret.v])

\* parse_select_stmt: `group_by: NonEmpty(<r>?)`
select_group_by(r, s) ==
    IF Failed(r) THEN r
    ELSE select_having(parse_clause_having(r.p), [s EXCEPT !.group_by = NonEmpty(r.ret.v)])

\* parse_select_stmt: `wheres: <r>?`
select_wheres(r, s) ==
    IF Failed(r) THEN r
    ELSE select_group_by(parse_clause_group_by(r.p), [s EXCEPT !.wheres = r.ret.v])

\* parse_select_stmt: `froms: NonEmpty(<r>?)`
select_froms(r, s) ==
    IF Failed(r) THEN r
    ELSE select_wheres(parse_clause_where(r.p), [s EXCEPT !.froms = NonEmpty(r.ret.v)])

\* parse_select_stmt: `selects: <r>?`
select_selects(r) ==
    IF Failed(r) THEN r
    ELSE select_froms(parse_clause_from(r.p), SelectStmt(r.ret.v, None, None, None, None))

\* Parser::parse_select_stmt
parse_select_stmt(p) == select_selects(parse_clause_select(p))

RECURSIVE update_loop(_, _, _)

\* parse_update_stmt: `Ok(Statement::Update(UpdateStmt { table_name, set, wheres: <r>? }))`
update_stmt(r, table_name, set) ==
    IF Failed(r) THEN r
    ELSE [p |-> r.p, ret |-> Ok([kind |-> "Update", table_name |-> table_name,
                                 set |-> set, wheres |-> r.ret.v])]

\* parse_update_stmt: `self.next_token(); break;` and the WHERE clause
update_wheres(r, table_name, set) ==
    IF Failed(r) THEN r ELSE update_stmt(parse_clause_where(r.p), table_name, set)

\* parse_update_stmt: `if set.contains_key(&column) { return Err(..) } set.insert(column, expr);
\* if self.peek_token != Token::Comma { self.next_token(); break; }`
update_insert(r, table_name, set, column) ==
    IF Failed(r) THEN r
    ELSE IF ContainsKey(set, column)
    THEN [p |-> r.p, ret |-> Err("Parse", [text |-> "Duplicate values given for column",
                                            column |-> column])]
    ELSE IF r.p.peek_token # Tok("Comma")
    THEN update_wheres(parser_next_token(r.p), table_name, Insert(set, column, r.ret.v))
    ELSE update_loop(r.p, table_name, Insert(set, column, r.ret.v))

\* parse_update_stmt: `self.next_token();` and the assigned expression
update_expr(r, table_name, set, column) ==
    IF Failed(r) THEN r
    ELSE update_insert(map_err(parse_expression(r.p, "Lowest"),
                               MsgText("expr is not valid!")), table_name, set, column)

\* parse_update_stmt: `self.next_expected_token(Token::Equal)?;` and what follows
update_value(r, table_name, set, column) ==
    IF Failed(r) THEN r ELSE update_expr(parser_next_token(r.p), table_name, set, column)

\* parse_update_stmt: `let column = <r>?;` and what follows
update_equal(r, table_name, set) ==
    IF Failed(r) THEN r
    ELSE update_value(next_expected_token(r.p, Tok("Equal")), table_name, set, r.ret.v)

\* parse_update_stmt: one turn of the loop
update_turn(p, table_name, set) == update_equal(next_ident(p), table_name, set)

\* update_loop, every turn of the loop counted
update_loop(p, table_name, set) ==
    IF OutOfTurns(p) THEN Diverged(p) ELSE update_turn(Turn(p), table_name, set)

\* parse_update_stmt: `self.next_expected_keyword(Keyword::Set)?;` and the loop
update_set(r, table_name) ==
    IF Failed(r) THEN r ELSE update_loop(r.p, table_name, EmptyMap)

\* parse_update_stmt: `let table_name = <r>?;` and what follows
update_table(r) ==
    IF Failed(r) THEN r ELSE update_set(next_expected_keyword(r.p, "Set"), r.ret.v)

\* Parser::parse_update_stmt
parse_update_stmt(p) == update_table(next_ident(p))

\* ---------------------------------------------------------------------------
\* INSERT
\* ---------------------------------------------------------------------------

RECURSIVE insert_cols_loop(_, _)
RECURSIVE insert_rows(_, _, _, _)
RECURSIVE insert_exprs(_, _, _, _, _)

\* parse_insert_stmt: `values.push(exprs); if self.peek_token != Token::Comma { break; }`
\* and the statement returned after the loop
insert_row_pushed(p, table_name, columns, values) ==
    IF p.peek_token # Tok("Comma")
    THEN [p |-> p, ret |-> Ok([kind |-> "Insert", table_name |-> table_name,
                               columns |-> columns, values |-> values])]
    ELSE insert_rows(p, table_name, columns, values)

\* parse_insert_stmt: `match self.next_token() { RightParen => break, Comma => {}, _ => return Err(..) }`
insert_expr_sep(r, table_name, columns, values, exprs) ==
    IF Failed(r) THEN r
    ELSE IF r.ret.v = Tok("RightParen")
    THEN insert_row_pushed(r.p, table_name, columns, Append(values, exprs))
    ELSE IF r.ret.v = Tok("Comma")
    THEN insert_exprs(r.p, table_name, columns, values, exprs)
    ELSE [p |-> r.p, ret |-> Err("Parse", MsgText(""))]

\* parse_insert_stmt: `exprs.push(Some(<r>?));` and what follows
insert_expr_push(r, table_name, columns, values, exprs) ==
    IF Failed(r) THEN r
    ELSE insert_expr_sep(parser_next_token(r.p), table_name, columns, values,
                         Append(exprs, Some(r.ret.v)))

\* parse_insert_stmt: `self.next_token();` of the inner loop and the expression
insert_expr(r, table_name, columns, values, exprs) ==
    IF Failed(r) THEN r
    ELSE insert_expr_push(parse_expression(r.p, "Lowest"), table_name, columns,
                          values, exprs)

\* parse_insert_stmt: one turn of the loop over the expressions of a tuple
insert_exprs_turn(p, table_name, columns, values, exprs) ==
    insert_expr(parser_next_token(p), table_name, columns, values, exprs)

\* insert_exprs, every turn of the loop counted
insert_exprs(p, table_name, columns, values, exprs) ==
    IF OutOfTurns(p) THEN Diverged(p) ELSE insert_exprs_turn(Turn(p), table_name, columns, values, exprs)

\* parse_insert_stmt: `let mut exprs = Vec::new(); self.next_token();` and the inner loop
insert_row_open(r, table_name, columns, values) ==
    IF Failed(r) THEN r ELSE insert_exprs(r.p, table_name, columns, values, <<>>)

\* parse_insert_stmt: one turn of the loop over the tuples
insert_rows_turn(p, table_name, columns, values) ==
    IF p.peek_token # Tok("LeftParen")
    THEN [p |-> p, ret |-> Err("Parse", Msg("except token LeftParen, get", p.peek_token))]
    ELSE insert_row_open(parser_next_token(p), table_name, columns, values)

\* insert_rows, every turn of the loop counted
insert_rows(p, table_name, columns, values) ==
    IF OutOfTurns(p) THEN Diverged(p) ELSE insert_rows_turn(Turn(p), table_name, columns, values)

\* parse_insert_stmt: `self.next_expected_keyword(Keyword::Values)?; let mut values = Vec::new();`
\* and the loop over the tuples
insert_values(r, table_name, columns) ==
    IF Failed(r) THEN r ELSE insert_rows(r.p, table_name, columns, <<>>)

\* parse_insert_stmt: `match self.next_token() { Comma => continue, RightParen => break, t => return Err(..) }`
\* and `Some(cols)`
insert_col_sep(r, cols) ==
    IF Failed(r) THEN r
    ELSE IF r.ret.v = Tok("Comma") THEN insert_cols_loop(r.p, cols)
    ELSE IF r.ret.v = Tok("RightParen") THEN [p |-> r.p, ret |-> Ok(Some(cols))]
    ELSE [p |-> r.p, ret |-> Err("Parse", Msg("excepted Comma or RightParen, get", r.ret.v))]

\* parse_insert_stmt: `cols.push(<r>?);` and what follows
insert_col(r, cols) ==
    IF Failed(r) THEN r ELSE insert_col_sep(parser_next_token(r.p), Append(cols, r.ret.v))

\* parse_insert_stmt: one turn of the loop over the column list
insert_cols_turn(p, cols) == insert_col(next_ident(p), cols)

\* insert_cols_loop, every turn of the loop counted
insert_cols_loop(p, cols) ==
    IF OutOfTurns(p) THEN Diverged(p) ELSE insert_cols_turn(Turn(p), cols)

\* parse_insert_stmt: `self.next_token(); let mut cols = Vec::new();` and the loop
insert_cols_open(r) == IF Failed(r) THEN r ELSE insert_cols_loop(r.p, <<>>)

\* parse_insert_stmt: `if self.peek_token == Token::LeftParen {..} else { None }`
insert_column_list(p) ==
    IF p.peek_token = Tok("LeftParen") THEN insert_cols_open(parser_next_token(p))
    ELSE [p |-> p, ret |-> Ok(None)]

\* parse_insert_stmt: `let columns = <r>;` and what follows
insert_listed(r, table_name) ==
    IF Failed(r) THEN r
    ELSE insert_values(next_expected_keyword(r.p, "Values"), table_name, r.ret.v)

\* parse_insert_stmt: `let table_name = <r>?;` and what follows
insert_named(r) ==
    IF Failed(r) THEN r ELSE insert_listed(insert_column_list(r.p), r.ret.v)

\* parse_insert_stmt: `self.next_expected_keyword(Keyword::Into)?;` and what follows
insert_table(r) == IF Failed(r) THEN r ELSE insert_named(next_ident(r.p))

\* Parser::parse_insert_stmt
parse_insert_stmt(p) == insert_table(next_expected_keyword(p, "Into"))

\* Parser::parse_delete_stmt: the statement returned
delete_stmt(r, table_name) ==
    IF Failed(r) THEN r
    ELSE [p |-> r.p, ret |-> Ok([kind |-> "Delete", table_name |-> table_name,
                                 where |-> r.ret.v])]

\* parse_delete_stmt: `self.next_token();` and the WHERE clause
delete_where(r, table_name) ==
    IF Failed(r) THEN r ELSE delete_stmt(parse_clause_where(r.p), table_name)

\* parse_delete_stmt: `let table_name = <r>?;` and what follows
delete_name(r) == IF Failed(r) THEN r ELSE delete_where(parser_next_token(r.p), r.ret.v)

\* parse_delete_stmt: `self.next_expected_keyword(Keyword::From)?;` and what follows
delete_table(r) == IF Failed(r) THEN r ELSE delete_name(next_ident(r.p))

\* Parser::parse_delete_stmt
parse_delete_stmt(p) == delete_table(next_expected_keyword(p, "From"))

\* ---------------------------------------------------------------------------
\* CREATE TABLE, CREATE INDEX
\* ---------------------------------------------------------------------------

\* DataType: the variants without a payload, and Varchar(len)
DataType(t) == [t |-> t]
Varchar(len) == [t |-> "Varchar", len |-> len]

\* parse_column: the keyword of each DataType that has no payload
ColumnType ==
    [Bool |-> "Bool", Boolean |-> "Bool", Float |-> "Float32", Double |-> "Float64",
     Int |-> "Int32", Integer |-> "Int32", Int8 |-> "Int8", Int16 |-> "Int16",
     Int32 |-> "Int32", Int64 |-> "Int64", Uint8 |-> "Uint8", Uint16 |-> "Uint16",
     Uint32 |-> "Uint32", Uint64 |-> "Uint64", Float32 |-> "Float32",
     Float64 |-> "Float64", Text |-> "String", Char |-> "Char", String |-> "String"]

\* str::parse::<usize> on a Number token's text (digits and '.', a digit
\* first): an error when there is a '.'; the sources keep every number far
\* below usize::MAX
parse_usize(text) ==
    IF Periods(text) # 0 THEN Err("Parse", MsgText("parse err: invalid digit found in string"))
    ELSE Ok(DecimalValue(text))

\* column::Column as parse_column first builds it
NewColumn(name, data_type) ==
    [name |-> name, data_type |-> data_type, primary_key |-> FALSE,
     nullable |-> None, default |-> None, unique |-> FALSE, index |-> FALSE,
     references |-> None]

RECURSIVE column_options(_, _)

\* parse_column, Keyword::Primary: `self.next_expected_keyword(Keyword::Key)?; column.primary_key = true;`
option_primary_key(r, column) ==
    IF Failed(r) THEN r ELSE column_options(r.p, [column EXCEPT !.primary_key = TRUE])

\* parse_column, Keyword::Primary: `self.next_token();` and what follows
option_primary(r, column) ==
    IF Failed(r) THEN r ELSE option_primary_key(next_expected_keyword(r.p, "Key"), column)

\* parse_column, Keyword::Null: `self.next_token(); if let Some(false) = column.nullable
\* { return Err(..) } column.nullable = Some(true);`
option_null(r, column) ==
    IF Failed(r) THEN r
    ELSE IF column.nullable = Some(FALSE)
    THEN [p |-> r.p, ret |-> Err("Parse", [text |-> "can't be both not nullable and nullable",
                                            column |-> column.name])]
    ELSE column_options(r.p, [column EXCEPT !.nullable = Some(TRUE)])

\* parse_column, Keyword::Not: `self.next_expected_keyword(Keyword::Null)?; column.nullable = Some(false);`
option_not_null(r, column) ==
    IF Failed(r) THEN r ELSE column_options(r.p, [column EXCEPT !.nullable = Some(FALSE)])

\* parse_column, Keyword::Not: `self.next_token();` and what follows
option_not(r, column) ==
    IF Failed(r) THEN r ELSE option_not_null(next_expected_keyword(r.p, "Null"), column)

\* parse_column, Keyword::Default: `column.default = Some(<r>?)`
option_default_expr(r, column) ==
    IF Failed(r) THEN r ELSE column_options(r.p, [column EXCEPT !.default = Some(r.ret.v)])

\* parse_column, Keyword::Default: the second `self.next_token();` and the expression
option_default_next(r, column) ==
    IF Failed(r) THEN r ELSE option_default_expr(parse_expression(r.p, "Lowest"), column)

\* parse_column, Keyword::Default: the first `self.next_token();` and what follows
option_default(r, column) ==
    IF Failed(r) THEN r ELSE option_default_next(parser_next_token(r.p), column)

\* parse_column, Keyword::Unique: `self.next_token(); column.unique = true`
option_unique(r, column) ==
    IF Failed(r) THEN r ELSE column_options(r.p, [column EXCEPT !.unique = TRUE])

\* parse_column, Keyword::Index: `self.next_token(); column.index = true`
option_index(r, column) ==
    IF Failed(r) THEN r ELSE column_options(r.p, [column EXCEPT !.index = TRUE])

\* parse_column, Keyword::References: `column.references = Some(<r>?)`
option_references_name(r, column) ==
    IF Failed(r) THEN r ELSE column_options(r.p, [column EXCEPT !.references = Some(r.ret.v)])

\* parse_column, Keyword::References: `self.next_token();` and what follows
option_references(r, column) ==
    IF Failed(r) THEN r ELSE option_references_name(next_ident(r.p), column)

\* parse_column: `while let Token::KeyWord(keyword) = self.peek_token { match keyword {..} }`
\* and `Ok(column)`
column_options_turn(p, column) ==
    IF p.peek_token.t # "KeyWord" THEN [p |-> p, ret |-> Ok(column)]
    ELSE CASE p.peek_token.k = "Primary" -> option_primary(parser_next_token(p), column)
           [] p.peek_token.k = "Null" -> option_null(parser_next_token(p), column)
           [] p.peek_token.k = "Not" -> option_not(parser_next_token(p), column)
           [] p.peek_token.k = "Default" -> option_default(parser_next_token(p), column)
           [] p.peek_token.k = "Unique" -> option_unique(parser_next_token(p), column)
           [] p.peek_token.k = "Index" -> option_index(parser_next_token(p), column)
           [] p.peek_token.k = "References" -> option_references(parser_next_token(p), column)
           [] OTHER -> [p |-> p, ret |-> Err("Parse", [text |-> "unexpected keyword",
                                                      k |-> p.peek_token.k])]

\* column_options, every turn of the loop counted
column_options(p, column) ==
    IF OutOfTurns(p) THEN Diverged(p) ELSE column_options_turn(Turn(p), column)

\* parse_column, Keyword::VarChar: `self.next_expected_token(Token::RightParen)?; DataType::Varchar(len)`
varchar_close(r, len) ==
    IF Failed(r) THEN r ELSE [p |-> r.p, ret |-> Ok(Varchar(len))]

\* parse_column, Keyword::VarChar: `let token = self.next_token(); let len = match token {..};`
varchar_len(r) ==
    IF Failed(r) THEN r
    ELSE IF r.ret.v.t # "Number"
    THEN [p |-> r.p, ret |-> Err("Parse", MsgWant("unexpected token", r.ret.v, "Number"))]
    ELSE IF parse_usize(r.ret.v.text).kind # "Ok"
    THEN [p |-> r.p, ret |-> parse_usize(r.ret.v.text)]
    ELSE varchar_close(next_expected_token(r.p, Tok("RightParen")),
                       parse_usize(r.ret.v.text).v)

\* parse_column, Keyword::VarChar: `self.next_expected_token(Token::LeftParen)?;` and what follows
varchar_open(r) == IF Failed(r) THEN r ELSE varchar_len(parser_next_token(r.p))

\* parse_column: `data_type: match self.next_token() {..}`
column_data_type(r) ==
    IF Failed(r) THEN r
    ELSE IF r.ret.v.t = "KeyWord" /\ r.ret.v.k = "VarChar"
    THEN varchar_open(next_expected_token(r.p, Tok("LeftParen")))
    ELSE IF r.ret.v.t = "KeyWord" /\ r.ret.v.k \in DOMAIN ColumnType
    THEN [p |-> r.p, ret |-> Ok(DataType(ColumnType[r.ret.v.k]))]
    ELSE [p |-> r.p, ret |-> Err("Parse", Msg("unexpected token", r.ret.v))]

\* parse_column: `let mut column = column::Column {..};` and the options
column_typed(r, name) ==
    IF Failed(r) THEN r ELSE column_options(r.p, NewColumn(name, r.ret.v))

\* parse_column: `let column_name = <r>?;` and what follows
column_name(r) ==
    IF Failed(r) THEN r
    ELSE column_typed(column_data_type(parser_next_token(r.p)), r.ret.v)

\* Parser::parse_column
parse_column(p) == column_name(next_ident(p))

RECURSIVE create_columns_loop(_, _, _)

\* parse_create_table_stmt: `self.next_expected_token(Token::Semicolon)?;` and the statement
create_table_stmt(r, table_name, columns) ==
    IF Failed(r) THEN r
    ELSE [p |-> r.p, ret |-> Ok([kind |-> "CreateTable", columns |-> columns,
                                 table_name |-> table_name])]

\* parse_create_table_stmt: `let token = self.next_token(); match token
\* { Comma => continue, RightParen => break, _ => return Err(..) }`
create_column_sep(r, table_name, columns) ==
    IF Failed(r) THEN r
    ELSE IF r.ret.v = Tok("Comma") THEN create_columns_loop(r.p, table_name, columns)
    ELSE IF r.ret.v = Tok("RightParen")
    THEN create_table_stmt(next_expected_token(r.p, Tok("Semicolon")), table_name, columns)
    ELSE [p |-> r.p, ret |-> Err("Parse", MsgWant("unexpected token", r.ret.v,
                                                   "Comma or RightParen"))]

\* parse_create_table_stmt: `columns.push(<r>?);` and what follows
create_column_push(r, table_name, columns) ==
    IF Failed(r) THEN r
    ELSE create_column_sep(parser_next_token(r.p), table_name, Append(columns, r.ret.v))

\* parse_create_table_stmt: one turn of the loop over the column definitions
create_columns_turn(p, table_name, columns) ==
    create_column_push(parse_column(p), table_name, columns)

\* create_columns_loop, every turn of the loop counted
create_columns_loop(p, table_name, columns) ==
    IF OutOfTurns(p) THEN Diverged(p) ELSE create_columns_turn(Turn(p), table_name, columns)

\* parse_create_table_stmt: `self.next_expected_token(Token::LeftParen)?;
\* let mut columns = Vec::new();` and the loop
create_columns(r, table_name) ==
    IF Failed(r) THEN r ELSE create_columns_loop(r.p, table_name, <<>>)

\* parse_create_table_stmt: `let table_name = match name { Ok(n) => n, Err(e) => return Err(e) };`
\* and what follows
create_table_name(r) ==
    IF Failed(r) THEN r
    ELSE create_columns(next_expected_token(r.p, Tok("LeftParen")), r.ret.v)

\* parse_create_table_stmt: `self.next_expected_keyword(Keyword::Table)?;` and what follows
create_table_keyword(r) == IF Failed(r) THEN r ELSE create_table_name(next_ident(r.p))

\* Parser::parse_create_table_stmt
parse_create_table_stmt(p) == create_table_keyword(next_expected_keyword(p, "Table"))

RECURSIVE index_columns_loop(_, _, _, _, _)

\* parse_create_index_stmt: `let token = self.next_token(); match token {..}` and the statement
index_column_sep(r, is_unique, index_name, table_name, columns) ==
    IF Failed(r) THEN r
    ELSE IF r.ret.v = Tok("Comma")
    THEN index_columns_loop(r.p, is_unique, index_name, table_name, columns)
    ELSE IF r.ret.v = Tok("RightParen")
    THEN [p |-> r.p, ret |-> Ok([kind |-> "CreateIndex", is_unique |-> is_unique,
                                 index_name |-> index_name, table_name |-> table_name,
                                 columns |-> columns])]
    ELSE [p |-> r.p, ret |-> Err("Parse", MsgWant("unexpected token", r.ret.v,
                                                   "Comma or RightParen"))]

\* parse_create_index_stmt: `columns.push(<r>?);` and what follows
index_column_push(r, is_unique, index_name, table_name, columns) ==
    IF Failed(r) THEN r
    ELSE index_column_sep(parser_next_token(r.p), is_unique, index_name, table_name,
                          Append(columns, r.ret.v))

\* parse_create_index_stmt: one turn of the loop over the column names
index_columns_turn(p, is_unique, index_name, table_name, columns) ==
    index_column_push(next_ident(p), is_unique, index_name, table_name, columns)

\* index_columns_loop, every turn of the loop counted
index_columns_loop(p, is_unique, index_name, table_name, columns) ==
    IF OutOfTurns(p) THEN Diverged(p) ELSE index_columns_turn(Turn(p), is_unique, index_name, table_name, columns)

\* parse_create_index_stmt: `self.next_token(); let mut columns = Vec::new();` and the loop
index_columns_open(r, is_unique, index_name, table_name) ==
    IF Failed(r) THEN r
    ELSE index_columns_loop(r.p, is_unique, index_name, table_name, <<>>)

\* parse_create_index_stmt: `let table_name = <r>?; match self.peek_token
\* { Token::LeftParen => {} _ => return Err(..) };` and what follows
index_table_name(r, is_unique, index_name) ==
    IF Failed(r) THEN r
    ELSE IF r.p.peek_token # Tok("LeftParen")
    THEN [p |-> r.p, ret |-> Err("Parse", Msg("unexpected token", r.p.peek_token))]
    ELSE index_columns_open(parser_next_token(r.p), is_unique, index_name, r.ret.v)

\* parse_create_index_stmt: `self.next_expected_keyword(Keyword::On)?;` and what follows
index_on(r, is_unique, index_name) ==
    IF Failed(r) THEN r ELSE index_table_name(next_ident(r.p), is_unique, index_name)

\* parse_create_index_stmt: `let index_name = <r>?;` and what follows
index_name_read(r, is_unique) ==
    IF Failed(r) THEN r ELSE index_on(next_expected_keyword(r.p, "On"), is_unique, r.ret.v)

\* parse_create_index_stmt: `self.next_token();` after is_unique and what follows
index_keyword(r, is_unique) ==
    IF Failed(r) THEN r ELSE index_name_read(next_ident(r.p), is_unique)

\* parse_create_index_stmt, Keyword::Unique: `self.next_token(); match self.peek_token.clone()
\* { Token::KeyWord(Keyword::Index) => true, _ => return Err(..) }`
index_unique(r) ==
    IF Failed(r) THEN r
    ELSE IF r.p.peek_token # KeyWord("Index")
    THEN [p |-> r.p, ret |-> Err("Parse", Msg("unexpected token", r.p.peek_token))]
    ELSE index_keyword(parser_next_token(r.p), TRUE)

\* Parser::parse_create_index_stmt
parse_create_index_stmt(p) ==
    IF p.peek_token = KeyWord("Unique") THEN index_unique(parser_next_token(p))
    ELSE index_keyword(parser_next_token(p), FALSE)

\* Parser::parse_create_stmt
parse_create_stmt(p) ==
    IF p.peek_token = KeyWord("Table") THEN parse_create_table_stmt(p)
    ELSE IF p.peek_token \in {KeyWord("Unique"), KeyWord("Index")}
    THEN parse_create_index_stmt(p)
    ELSE [p |-> p, ret |-> Err("Parse", Msg("unexpected token", p.peek_token))]

\* ---------------------------------------------------------------------------
\* ALTER TABLE
\* ---------------------------------------------------------------------------

\* Statement::Alter
AlterStmt(alter_type, table_name) ==
    [kind |-> "Alter", alter_type |-> alter_type, table_name |-> table_name]

\* parse_alter_stmt, ADD COLUMN, ADD <ident> and MODIFY: `AlterType::AddColumn(<r>?)`,
\* `AlterType::ModifyColumn(<r>?)`
alter_column(r, table_name, t) ==
    IF Failed(r) THEN r
    ELSE [p |-> r.p, ret |-> Ok(AlterStmt([t |-> t, column |-> r.ret.v], table_name))]

RECURSIVE alter_index_loop(_, _, _, _)

\* parse_alter_stmt, ADD INDEX: `Token::Ident(i) => { self.next_token(); column_list.push(i); }`
alter_index_push(r, table_name, add_index_name, column_list) ==
    IF Failed(r) THEN r ELSE alter_index_loop(r.p, table_name, add_index_name, column_list)

\* parse_alter_stmt, ADD INDEX: `Token::RightParen => { self.next_token(); break; }`
\* and the statement
alter_index_stmt(r, table_name, add_index_name, column_list) ==
    IF Failed(r) THEN r
    ELSE [p |-> r.p,
          ret |-> Ok(AlterStmt([t |-> "AddIndex", name |-> add_index_name,
                                columns |-> column_list], table_name))]

\* parse_alter_stmt, ADD INDEX: a turn of the loop whose Token::Comma arm is
\* `continue` alone
alter_index_turn_comma_kept(p, table_name, add_index_name, column_list) ==
    CASE p.peek_token.t = "Ident" ->
           alter_index_push(parser_next_token(p), table_name, add_index_name,
                            Append(column_list, p.peek_token.text))
      [] p.peek_token = Tok("Comma") ->
           alter_index_loop(p, table_name, add_index_name, column_list)
      [] p.peek_token = Tok("RightParen") ->
           alter_index_stmt(parser_next_token(p), table_name, add_index_name, column_list)
      [] OTHER ->
           [p |-> p, ret |-> Err("Parse", Msg("expected Token::LeftParen, but get",
                                              p.peek_token))]

\* parse_alter_stmt, ADD INDEX: one turn of the loop over the column list
alter_index_turn(p, table_name, add_index_name, column_list) ==
    CASE p.peek_token.t = "Ident" ->
           alter_index_push(parser_next_token(p), table_name, add_index_name,
                            Append(column_list, p.peek_token.text))
      [] p.peek_token = Tok("Comma") ->
           alter_index_push(parser_next_token(p), table_name, add_index_name, column_list)
      [] p.peek_token = Tok("RightParen") ->
           alter_index_stmt(parser_next_token(p), table_name, add_index_name, column_list)
      [] OTHER ->
           [p |-> p, ret |-> Err("Parse", Msg("expected Token::LeftParen, but get",
                                              p.peek_token))]

\* alter_index_loop, every turn of the loop counted
alter_index_loop(p, table_name, add_index_name, column_list) ==
    IF OutOfTurns(p) THEN Diverged(p) ELSE alter_index_turn(Turn(p), table_name, add_index_name, column_list)

\* parse_alter_stmt, ADD INDEX: `self.next_token();` after Token::LeftParen and the loop
alter_index_open(r, table_name, add_index_name) ==
    IF Failed(r) THEN r ELSE alter_index_loop(r.p, table_name, add_index_name, <<>>)

\* parse_alter_stmt, ADD INDEX: `let mut column_list = vec![]; match self.peek_token.clone() {..}`
alter_index_list(r, table_name, add_index_name) ==
    IF Failed(r) THEN r
    ELSE IF r.p.peek_token = Tok("LeftParen")
    THEN alter_index_open(parser_next_token(r.p), table_name, add_index_name)
    ELSE [p |-> r.p, ret |-> Err("Parse", Msg("expected Token::LeftParen, but get",
                                              r.p.peek_token))]

\* parse_alter_stmt, ADD INDEX: `self.next_token(); let add_index_name =
\* match self.peek_token.clone() { Token::Ident(i) => { self.next_token(); Some(i) } _ => None };`
alter_index_name(r, table_name) ==
    IF Failed(r) THEN r
    ELSE alter_index_list(IF r.p.peek_token.t = "Ident" THEN parser_next_token(r.p) ELSE r,
                          table_name,
                          IF r.p.peek_token.t = "Ident" THEN Some(r.p.peek_token.text)
                          ELSE None)

\* parse_alter_stmt, DROP COLUMN, DROP INDEX, RENAME TO: the name and the statement
alter_named(r, table_name, t) ==
    IF Failed(r) THEN r
    ELSE [p |-> r.p, ret |-> Ok(AlterStmt([t |-> t, name |-> r.ret.v], table_name))]

\* parse_alter_stmt, RENAME COLUMN: `let new_column_name = <r>?;` and the statement
alter_rename_new(r, table_name, old_column_name) ==
    IF Failed(r) THEN r
    ELSE [p |-> r.p,
          ret |-> Ok(AlterStmt([t |-> "RenameColumn", old |-> old_column_name,
                                new |-> r.ret.v], table_name))]

\* parse_alter_stmt, RENAME COLUMN: `self.next_expected_keyword(Keyword::To)?;` and what follows
alter_rename_to(r, table_name, old_column_name) ==
    IF Failed(r) THEN r ELSE alter_rename_new(next_ident(r.p), table_name, old_column_name)

\* parse_alter_stmt, RENAME COLUMN: `let old_column_name = <r>?;` and what follows
alter_rename_old(r, table_name) ==
    IF Failed(r) THEN r
    ELSE alter_rename_to(next_expected_keyword(r.p, "To"), table_name, r.ret.v)

\* parse_alter_stmt: the arm that `match &self.pre_token { .. match &self.peek_token {..} }`
\* takes, named by its AlterType; every arm that is not an error starts with
\* `self.next_token();`
AlterArm(p) ==
    CASE p.pre_token = KeyWord("Add") ->
           IF p.peek_token = KeyWord("Column") \/ p.peek_token.t = "Ident" THEN "AddColumn"
           ELSE IF p.peek_token = KeyWord("Index") THEN "AddIndex"
           ELSE "unexpected token"
      [] p.pre_token = KeyWord("Drop") ->
           IF p.peek_token = KeyWord("Column") THEN "DropColumn"
           ELSE IF p.peek_token = KeyWord("Index") THEN "RemoveIndex"
           ELSE "unexpected token"
      [] p.pre_token = KeyWord("Rename") ->
           IF p.peek_token = KeyWord("Column") THEN "RenameColumn"
           ELSE IF p.peek_token = KeyWord("To") THEN "RenameTable"
           ELSE "unexpected token"
      [] p.pre_token = KeyWord("Modify") -> "ModifyColumn"
      [] OTHER -> "ALTER TABLE is not valid unexpected token"

\* parse_alter_stmt: the arm after its `self.next_token();`
alter_arm(r, table_name, arm) ==
    IF Failed(r) THEN r
    ELSE CASE arm \in {"AddColumn", "ModifyColumn"} ->
                alter_column(parse_column(r.p), table_name, arm)
           [] arm = "AddIndex" -> alter_index_name(r, table_name)
           [] arm = "RenameColumn" -> alter_rename_old(next_ident(r.p), table_name)
           [] OTHER -> alter_named(next_ident(r.p), table_name, arm)

\* parse_alter_stmt: `self.next_token(); match &self.pre_token {..}`
alter_type(r, table_name) ==
    IF Failed(r) THEN r
    ELSE IF AlterArm(r.p) = "unexpected token"
    THEN [p |-> r.p, ret |-> Err("Parse", Msg("unexpected token", r.p.peek_token))]
    ELSE IF AlterArm(r.p) = "ALTER TABLE is not valid unexpected token"
    THEN [p |-> r.p, ret |-> Err("Parse", Msg("ALTER TABLE is not valid unexpected token",
                                              r.p.pre_token))]
    ELSE alter_arm(parser_next_token(r.p), table_name, AlterArm(r.p))

\* parse_alter_stmt: `let table_name = <r>?;` and what follows
alter_table_name(r) ==
    IF Failed(r) THEN r ELSE alter_type(parser_next_token(r.p), r.ret.v)

\* parse_alter_stmt: `self.next_expected_keyword(Keyword::Table)?;` and what follows
alter_table(r) == IF Failed(r) THEN r ELSE alter_table_name(next_ident(r.p))

\* Parser::parse_alter_stmt
parse_alter_stmt(p) == alter_table(next_expected_keyword(p, "Table"))

RECURSIVE parse_stmt(_)

\* parse_explain_stmt: `Ok(Statement::Explain(ExplainStmt { statement: Box::new(self.parse_stmt()?) }))`
explain_stmt(r) ==
    IF Failed(r) THEN r
    ELSE [p |-> r.p, ret |-> Ok([kind |-> "Explain", statement |-> r.ret.v])]

\* parse_explain_stmt: `self.next_token();` and what follows
explain_next(r) == IF Failed(r) THEN r ELSE explain_stmt(parse_stmt(r.p))

\* Parser::parse_explain_stmt
parse_explain_stmt(p) == explain_next(parser_next_token(p))

\* Parser::parse_stmt
parse_stmt_body(p) ==
    CASE p.pre_token = Tok("Eof") ->
           [p |-> p, ret |-> Err("Parse", Msg("empty token", p.pre_token))]
      [] p.pre_token \in {KeyWord("Begin"), KeyWord("Commit"), KeyWord("Rollback")} ->
           parse_transaction_stmt(p)
      [] p.pre_token = KeyWord("Create") -> parse_create_stmt(p)
      [] p.pre_token = KeyWord("Drop") -> parse_drop_stmt(p)
      [] p.pre_token = KeyWord("Delete") -> parse_delete_stmt(p)
      [] p.pre_token = KeyWord("Insert") -> parse_insert_stmt(p)
      [] p.pre_token = KeyWord("Select") -> parse_select_stmt(p)
      [] p.pre_token = KeyWord("Update") -> parse_update_stmt(p)
      [] p.pre_token = KeyWord("Alter") -> parse_alter_stmt(p)
      [] p.pre_token = KeyWord("Show") -> parse_show_stmt(p)
      [] p.pre_token = KeyWord("Explain") -> parse_explain_stmt(p)
      [] p.pre_token = KeyWord("Describe") ->
           IF p.peek_token.t = "Ident"
           THEN [p |-> p, ret |-> Ok([kind |-> "DescribeTable", name |-> p.peek_token.text])]
           ELSE [p |-> p, ret |-> Err("Parse", Msg("unexpected token", p.peek_token))]
      [] p.pre_token = KeyWord("Set") -> parse_set_stmt(p)
      [] OTHER -> [p |-> p, ret |-> Err("Parse", Msg("unexpected token", p.pre_token))]

\* parse_stmt, every call counted
parse_stmt(p) ==
    IF OutOfTurns(p) THEN Diverged(p) ELSE parse_stmt_body(Turn(p))

\* no call has been made yet
NoRet == [op |-> "none"]

InitIdlePlanner ==
    /\ planner = PlannerNew(CataLogDefault)
    /\ plan_ret = NoRet

InitIdleParser ==
    /\ lexer = new_lexer(<<>>)
    /\ lex_ret = NoRet
    /\ parser = new_parser(<<>>).p
    /\ parse_ret = NoRet

InitCatalog ==
    /\ catalog = CataLogDefault
    /\ cat_ret = NoRet
    /\ cat_ok = 0
    /\ InitIdlePlanner
    /\ InitIdleParser

\* one call of create_table(table_name, schema), successful or failing
CreateTable ==
    \E table_name \in TableNames, schema \in Schemas :
        LET r == create_table(catalog, table_name, schema)
        IN /\ cat_ok < MaxTables
           /\ catalog' = r.cat
           /\ cat_ret' = [op |-> "create_table", name |-> table_name,
                          schema |-> schema, ret |-> r.ret]
           /\ cat_ok' = IF r.ret.kind = "Ok" THEN cat_ok + 1 ELSE cat_ok
           /\ UNCHANGED <<planVars, lexVars, parseVars>>

NextCatalog == CreateTable

SpecCatalog == InitCatalog /\ [][NextCatalog]_vars

\* C2: after any sequence of create_table calls, name_id_map and id_table_map
\* agree: every name maps to an id that id_table_map holds with a TableInfo of
\* that name and id, every id of id_table_map is the image of exactly one
\* name, is_table_exist(n) holds iff table_by_name(n) is Some, and
\* table_by_id(table_by_name(n).id) is the same table.
CatalogMapsAgree ==
    /\ \A n \in DOMAIN catalog.name_id_map :
          LET id == catalog.name_id_map[n]
          IN /\ id \in DOMAIN catalog.id_table_map
             /\ catalog.id_table_map[id].name = n
             /\ catalog.id_table_map[id].id = id
    /\ \A id \in DOMAIN catalog.id_table_map :
          Cardinality({n \in DOMAIN catalog.name_id_map :
                          catalog.name_id_map[n] = id}) = 1
    /\ \A n \in TableNames :
          /\ is_table_exist(catalog, n) <=> table_by_name(catalog, n).some
          /\ table_by_name(catalog, n).some =>
                table_by_id(catalog, table_by_name(catalog, n).v.id)
                    = table_by_name(catalog, n)

\* two tables are installed and the last create_table call failed
CatalogMapsAgreeWitness ==
    /\ Cardinality(DOMAIN catalog.name_id_map) >= 2
    /\ cat_ret.op = "create_table"
    /\ cat_ret.ret.kind = "Err"

\* C3: table ids come from a counter starting at 0: the k-th successful
\* create_table returns id k-1, no id is given to two tables, and a call that
\* fails because the name exists consumes no id and leaves the maps and the
\* counter unchanged.
TableIdsMonotonic ==
    /\ [](/\ catalog.next_table_id = cat_ok
          /\ (cat_ret.op = "create_table" /\ cat_ret.ret.kind = "Ok")
                => cat_ret.ret.info.id = cat_ok - 1
          /\ \A n1, n2 \in DOMAIN catalog.name_id_map :
                n1 # n2 => catalog.name_id_map[n1] # catalog.name_id_map[n2]
          /\ DOMAIN catalog.id_table_map = 0..(cat_ok - 1))
    /\ [][cat_ret'.ret.kind = "Err" =>
             (catalog' = catalog /\ cat_ok' = cat_ok
              /\ ContainsKey(catalog.name_id_map, cat_ret'.name))]_vars

\* the third successful call has returned id 2
TableIdsMonotonicWitness ==
    /\ cat_ok = 3
    /\ cat_ret.op = "create_table"
    /\ cat_ret.ret.kind = "Ok"
    /\ cat_ret.ret.info.id = 2
    /\ Cardinality(DOMAIN catalog.name_id_map) = 3


(***************************************************************************)
(* SpecPlanner: a Planner over a catalog frozen behind Arc<CataLog>        *)
(***************************************************************************)

RECURSIVE BuildCatalog(_, _)
\* the catalog after the create_table calls of script, from call i on
BuildCatalog(cat, script) ==
    IF Len(script) = 0 THEN cat
    ELSE BuildCatalog(create_table(cat, script[1].name, script[1].schema).cat,
                      Tail(script))

Tbl(name, schema) == [name |-> name, schema |-> schema]

\* the create_table calls made before the catalog is shared
CatalogScripts ==
    { <<>>,
      <<Tbl("a", <<"id", "x">>), Tbl("b", <<"id">>)>>,
      <<Tbl("b", <<"x", "id">>), Tbl("a", <<"id">>), Tbl("d", <<"id", "x">>)>>,
      <<Tbl("a", <<"x", "id">>), Tbl("b", <<"id", "x">>), Tbl("a", <<"id">>)>> }

PlannerCatalogs == {BuildCatalog(CataLogDefault, script) : script \in CatalogScripts}

F(c) == Field(None, c)
QF(t, c) == Field(Some(t), c)
Int1 == Literal("Int", 1)
Sel(e) == [expr |-> e, alias |-> None]

\* select-list expressions
SelectExprs ==
    { F("id"), F("x"), F("zz"), QF("a", "id"), QF("t", "x"), QF("b", "x"), Int1,
      UnOp("Negate", F("id")), UnOp("Not", BinOp("Equal", F("id"), Int1)),
      BinOp("Add", F("id"), Int1), BinOp("Modulo", F("id"), Int1),
      BinOp("Equal", QF("a", "id"), F("id")),
      Function("COUNT", <<F("id")>>), Function("COUNT", <<Literal("All", 0)>>),
      Function("MAX", <<F("id")>>), Function("count", <<F("id")>>),
      Function("NOW", <<>>) }

SelectLists ==
    {<<>>} \cup {<<Sel(e)>> : e \in SelectExprs}
           \cup {<<Sel(QF("a", "id")), [expr |-> F("x"), alias |-> Some("y")]>>,
                 <<Sel(F("x")), Sel(F("id"))>>}

FromTables ==
    {FromTable(n, al) : n \in {"a", "b"}, al \in {None, Some("t"), Some("b")}}
        \cup {FromTable("d", None), FromTable("zz", None)}

JoinPredicates ==
    { None,
      Some(BinOp("Equal", QF("a", "id"), QF("b", "id"))),
      Some(BinOp("Equal", F("id"), QF("b", "id"))),
      Some(BinOp("Equal", F("x"), QF("b", "id"))) }

FromJoins ==
    {FromJoin(l, r, "Inner", p) :
        l \in {FromTable("a", None), FromTable("a", Some("t"))},
        r \in {FromTable("b", None), FromTable("a", None), FromTable("zz", None)},
        p \in JoinPredicates}
    \cup {FromJoin(FromTable("a", None), FromTable("b", None), "Outer", None),
          FromJoin(FromTable("a", None), FromTable("b", None), "Left",
                   Some(BinOp("Equal", QF("a", "id"), QF("b", "id"))))}
    \cup {FromJoin(FromJoin(FromTable("a", None), FromTable("b", None), "Inner", p1),
                   FromTable("d", None), "Inner", p2) :
            p1 \in {Some(BinOp("Equal", F("x"), QF("b", "id"))),
                    Some(BinOp("Equal", QF("a", "id"), QF("b", "id")))},
            p2 \in {Some(BinOp("Equal", QF("a", "id"), QF("d", "id"))),
                    Some(BinOp("Equal", F("id"), QF("d", "id")))}}

WherePredicates ==
    { None, Some(BinOp("GreaterThan", F("id"), Int1)),
      Some(BinOp("NotEqual", QF("b", "id"), Literal("Null", 0))) }

OrderBys == {None, Some(<<[expr |-> F("id"), by |-> "Asc"]>>),
             Some(<<[expr |-> QF("a", "id"), by |-> "Desc"]>>)}

GroupBys == {None, Some(<<F("x")>>)}

A_JOIN_B == FromJoin(FromTable("a", None), FromTable("b", None), "Inner",
                     Some(BinOp("Equal", QF("a", "id"), QF("b", "id"))))

\* the SELECT statements given to plan()
SelectStmts ==
    {SelectStmt(sl, fr, None, None, None) :
        sl \in SelectLists,
        fr \in {None, Some(<<FromTable("a", None)>>), Some(<<A_JOIN_B>>),
                Some(<<FromTable("b", Some("t"))>>)}}
    \cup {SelectStmt(<<Sel(F("id"))>>, Some(<<fi>>), None, None, None) :
            fi \in FromTables \cup FromJoins}
    \cup {SelectStmt(<<Sel(e)>>, Some(<<fi>>), wh, gb, ob) :
            e \in {QF("a", "id"), F("x")},
            fi \in {FromTable("a", None), A_JOIN_B},
            wh \in WherePredicates, gb \in GroupBys, ob \in OrderBys}

\* the statements given to plan()
PlanStatements ==
    {[kind |-> "Select", select |-> st] : st \in SelectStmts}
        \cup {[kind |-> "Commit"], [kind |-> "ShowTables"]}

\* bound of the CREATE TABLE statements: the columns of one statement
MaxCreateCols == 2

\* parser Column, of which check_create_table reads name and primary_key
CreateColumns == [name : ColNames, primary_key : BOOLEAN]

CreateTableStmts ==
    [table_name : {"a", "n"},
     columns : UNION {[1..n -> CreateColumns] : n \in 0..MaxCreateCols}]

InitPlanner ==
    /\ catalog \in PlannerCatalogs
    /\ cat_ret = NoRet
    /\ cat_ok = catalog.next_table_id
    /\ planner = PlannerNew(catalog)
    /\ plan_ret = NoRet
    /\ InitIdleParser

\* planner.plan(&ast)
Plan ==
    \E ast \in PlanStatements :
        LET r == plan(planner, ast)
        IN /\ plan_ret.op # "panicked"
           /\ planner' = r.self
           /\ plan_ret' = IF r.ret.kind = "Panic"
                          THEN [op |-> "panicked", call |-> "plan", stmt |-> ast,
                                fresh |-> planner.context = PlanContextNew, ret |-> r.ret]
                          ELSE [op |-> "plan", call |-> "plan", stmt |-> ast,
                                fresh |-> planner.context = PlanContextNew, ret |-> r.ret]
           /\ UNCHANGED <<catVars, lexVars, parseVars>>

\* planner.reset_ctx()
ResetCtx ==
    /\ plan_ret.op # "panicked"
    /\ planner' = reset_ctx(planner)
    /\ plan_ret' = [op |-> "reset_ctx"]
    /\ UNCHANGED <<catVars, lexVars, parseVars>>

\* planner.check_create_table(&create_stmt)
CheckCreateTable ==
    \E create_stmt \in CreateTableStmts :
        LET r == check_create_table(planner, create_stmt)
        IN /\ plan_ret.op # "panicked"
           /\ planner' = r.self
           /\ plan_ret' = [op |-> "check_create_table", stmt |-> create_stmt,
                           ret |-> r.ret]
           /\ UNCHANGED <<catVars, lexVars, parseVars>>

NextPlanner == Plan \/ ResetCtx \/ CheckCreateTable

SpecPlanner == InitPlanner /\ [][NextPlanner]_vars

\* C1: at entry to every plan() call a fresh PlanContext is in effect without
\* the caller invoking reset_ctx(): the result of plan(s) is the one a newly
\* constructed Planner over the same catalog returns, whatever was planned
\* before.
PlanSeesFreshContext ==
    plan_ret.op \in {"plan", "panicked"} =>
        plan_ret.ret = plan(PlannerNew(catalog), plan_ret.stmt).ret

\* C4: the planner never mutates the catalog: over every step of plan,
\* reset_ctx and check_create_table, with any outcome, the catalog the planner
\* holds (maps and next-id counter) stays what it was.
PlannerKeepsCatalog ==
    [][planner'.catalog = planner.catalog /\ planner'.catalog = catalog']_vars

\* check_create_table has accepted a statement after a plan() that bound a table
PlannerKeepsCatalogWitness ==
    /\ plan_ret.op = "check_create_table"
    /\ plan_ret.ret.kind = "Ok"
    /\ planner.context # PlanContextNew
    /\ planner.catalog = catalog
    /\ catalog # CataLogDefault

RECURSIVE Mentions(_, _)
\* expr holds the unqualified column reference Field(None, c)
Mentions(expr, c) ==
    CASE expr.kind = "Field" -> ~expr.table.some /\ expr.name = c
      [] expr.kind = "Function" ->
            \E i \in 1..Len(expr.args) : Mentions(expr.args[i], c)
      [] expr.kind = "Operation" ->
            IF expr.op \in UnaryOperations THEN Mentions(expr.e, c)
            ELSE Mentions(expr.l, c) \/ Mentions(expr.r, c)
      [] OTHER -> FALSE

\* st joins two tables of cat that both have a column c, and refers to c
\* without a qualifier in the select list, the ON predicate, WHERE or ORDER BY
AmbiguousIn(cat, st, c) ==
    /\ st.froms.some
    /\ Len(st.froms.v) = 1
    /\ LET j == st.froms.v[1]
       IN /\ j.kind = "Join"
          /\ j.left.kind = "Table"
          /\ j.right.kind = "Table"
          /\ j.left.name # j.right.name
          /\ \A t \in {j.left.name, j.right.name} :
                /\ table_by_name(cat, t).some
                /\ \E i \in 1..Len(table_by_name(cat, t).v.schema) :
                      table_by_name(cat, t).v.schema[i] = c
          /\ \/ \E i \in 1..Len(st.selects) : Mentions(st.selects[i].expr, c)
             \/ j.predicate.some /\ Mentions(j.predicate.v, c)
             \/ st.wheres.some /\ Mentions(st.wheres.v, c)
             \/ st.order.some /\ \E i \in 1..Len(st.order.v) : Mentions(st.order.v[i].expr, c)

\* C9: for every SELECT that joins two tables both of which have a column c
\* and that refers to c without a qualifier, plan() (on a fresh context)
\* returns a Plan-kind error; it never resolves c to one of the tables.
AmbiguousColumnIsPlanError ==
    (/\ plan_ret.op \in {"plan", "panicked"}
     /\ plan_ret.fresh
     /\ plan_ret.stmt.kind = "Select"
     /\ \E c \in ColNames : AmbiguousIn(catalog, plan_ret.stmt.select, c))
        => (plan_ret.ret.kind = "Err" /\ plan_ret.ret.err = "Plan")

MaxSrcLen == 3
MaxPastEnd == 2

\* the bytes the sources are made of: NUL, space, # (starts no token), ', .,
\* 1, =, >, a, and the two bytes of U+00FC
LexAlphabet == {0, 32, 35, 39, 46, 49, 61, 62, 97, 195, 188}

\* the byte strings that are UTF-8, over one-byte and two-byte characters
IsUtf8(str) ==
    \A i \in 1..Len(str) :
        /\ str[i] < 248
        /\ str[i] \notin 224..247
        /\ str[i] \in 192..223 => i < Len(str) /\ str[i + 1] \in 128..191
        /\ str[i] \in 128..191 => i > 1 /\ str[i - 1] \in 192..223

LexSources ==
    {str \in UNION {[1..n -> LexAlphabet] : n \in 0..MaxSrcLen} : IsUtf8(str)}

\* the sources update is called with
LexUpdateSources ==
    {<<>>, Bytes("a 1"), <<0, 97>>, Bytes("'a"), <<195, 188>>, Bytes(">= #")}

\* the result of a call that is not next_token
NoToken == [kind |-> "None"]

InitLexer ==
    /\ catalog = CataLogDefault
    /\ cat_ret = NoRet
    /\ cat_ok = 0
    /\ InitIdlePlanner
    /\ \E sql_str \in LexSources :
         /\ lexer = new_lexer(sql_str)
         /\ lex_ret = [op |-> "new", via |-> "new", src |-> sql_str, n |-> 0,
                       from |-> lexer, ret |-> NoToken, eof_seen |-> FALSE]
    /\ parser = new_parser(<<>>).p
    /\ parse_ret = NoRet

\* lexer.update(new_sql_str)
LexUpdate ==
    \E new_sql_str \in LexUpdateSources :
        /\ lex_ret.op \notin {"none", "panicked"}
        /\ lexer' = lexer_update(lexer, new_sql_str)
        /\ lex_ret' = [op |-> "update", via |-> "update", src |-> new_sql_str, n |-> 0,
                       from |-> lexer', ret |-> NoToken, eof_seen |-> FALSE]
        /\ UNCHANGED <<catVars, planVars, parseVars>>

\* lexer.next_token()
LexNextToken ==
    LET r == lexer_next_token(lexer)
    IN /\ lex_ret.op \notin {"none", "panicked"}
       /\ lexer.read_pos <= Len(lexer.origin_str) + MaxPastEnd
       /\ lexer' = r.lx
       /\ lex_ret' = [op |-> IF r.tok.kind = "Panic" THEN "panicked" ELSE "next_token",
                      via |-> lex_ret.via, src |-> lex_ret.src, n |-> lex_ret.n + 1,
                      from |-> lexer, ret |-> r.tok,
                      eof_seen |-> lex_ret.eof_seen \/ lex_ret.ret = Ok(Tok("Eof"))]
       /\ UNCHANGED <<catVars, planVars, parseVars>>

NextLexer == LexUpdate \/ LexNextToken

SpecLexer == InitLexer /\ [][NextLexer]_vars

\* C7: the token stream ends in Eof forever: a next_token() call made when the
\* whole buffer is consumed returns Eof, and once a call has returned Eof
\* every later call before the next update returns Eof.
EofForever ==
    lex_ret.op \in {"next_token", "panicked"} =>
        /\ lex_ret.from.pos >= Len(lex_ret.from.origin_str) => lex_ret.ret = Ok(Tok("Eof"))
        /\ lex_ret.eof_seen => lex_ret.ret = Ok(Tok("Eof"))

\* the characters that start a token or separate tokens
StartsToken(ch) ==
    \/ ch \in {32, 9, 10, 13, STOP_CHAR}
    \/ SingleCharToken(ch).some
    \/ ch \in {Ch(">"), Ch("<"), Ch("!"), Ch("'"), Ch("\"")}
    \/ is_letter(ch)
    \/ ch \in 48..57

\* C8: the scanner never fails: every next_token() call returns a token, and
\* a character that starts no token yields Keyword(UserIdent) and is consumed.
ScannerNeverFails ==
    /\ lex_ret.op # "panicked"
    /\ lex_ret.op = "next_token" =>
         LET lx == skip_space(lex_ret.from)
         IN ~StartsToken(lx.cur_read_char) =>
               /\ lex_ret.ret = Ok(KeyWord("UserIdent"))
               /\ lexer.pos = lx.pos + 1

(***************************************************************************)
(* The parser under calls: new_parser, update, parse_stmt                  *)
(***************************************************************************)

MaxWords == 2
MaxParses == 3

\* the words the sources are made of
ParserWords ==
    { Bytes("COMMIT"), Bytes(";"), Bytes("begin"), Bytes("READ"), Bytes("ONLY"),
      Bytes("DESCRIBE"), Bytes("t"), Bytes("SHOW"), Bytes("TABLES"),
      Bytes("EXPLAIN"), Bytes("DROP"), Bytes("TABLE") }

RECURSIVE JoinWords(_)
\* the words of a sequence, one space between two
JoinWords(ws) ==
    IF ws = <<>> THEN <<>>
    ELSE IF Len(ws) = 1 THEN ws[1]
    ELSE ws[1] \o <<32>> \o JoinWords(Tail(ws))

\* longer statements, and sources the scanner stops on
LongSources ==
    { Bytes("BEGIN TRANSACTION READ ONLY AS OF SYSTEM TIME 12;"),
      Bytes("BEGIN TRANSACTION READ WRITE AS OF SYSTEM TIME 1.5"),
      Bytes("BEGIN TRANSACTION AS OF SYSTEM 1"),
      Bytes("SET SESSION TRANSACTION ISOLATION LEVEL READ COMMITTED"),
      Bytes("SET GLOBAL TRANSACTION ISOLATION LEVEL REPEATABLE READ;"),
      Bytes("SET TRANSACTION ISOLATION LEVEL SERIALIZABLE"),
      Bytes("SET TRANSACTION ISOLATION READ"),
      Bytes("SET SESSION x"),
      Bytes("SHOW DATABASES; ROLLBACK; COMMIT"),
      Bytes("EXPLAIN EXPLAIN ROLLBACK ; DROP TABLE t"),
      Bytes("DROP TABLE 'a'; COMMIT"),
      Bytes("# COMMIT"),
      Bytes("COMMIT ") \o <<195, 188>>,
      <<195, 188>> }

ParserSources ==
    {JoinWords(ws) : ws \in UNION {[1..n -> ParserWords] : n \in 0..MaxWords}}
        \cup LongSources

\* the sources update is called with
ParserUpdateSources ==
    { <<>>, Bytes("COMMIT ; ROLLBACK"), Bytes("DESCRIBE t"), Bytes("begin READ ONLY"),
      Bytes("EXPLAIN DROP TABLE t ; SHOW TABLES"), Bytes("DROP t"),
      Bytes("COMMIT ROLLBACK DESCRIBE t"),
      Bytes("ROLLBACK ; ") \o <<195, 188>> }

InitParser ==
    /\ catalog = CataLogDefault
    /\ cat_ret = NoRet
    /\ cat_ok = 0
    /\ InitIdlePlanner
    /\ lexer = new_lexer(<<>>)
    /\ lex_ret = NoRet
    /\ \E sql_str \in ParserSources :
         LET r == new_parser(sql_str)
         IN /\ parser = r.p
            /\ parse_ret = [op |-> IF r.ret.kind = "Panic" THEN "panicked" ELSE "new",
                            via |-> "new", src |-> sql_str, n |-> 0,
                            ret |-> IF r.ret.kind = "Panic" THEN Panic ELSE NoToken,
                            first |-> NoToken, prior |-> NoToken]

\* parser.update(sql_str) returns r
ParserUpdated(sql_str, r) ==
    /\ parser' = r.p
    /\ parse_ret' = [op |-> IF r.ret.kind = "Panic" THEN "panicked" ELSE "update",
                     via |-> "update", src |-> sql_str, n |-> 0,
                     ret |-> IF r.ret.kind = "Panic" THEN Panic ELSE NoToken,
                     first |-> NoToken, prior |-> parse_ret.ret]

\* parser.update(sql_str)
ParserUpdate ==
    \E sql_str \in ParserUpdateSources :
        /\ parse_ret.op \notin {"none", "panicked"}
        /\ ParserUpdated(sql_str, parser_update(parser, sql_str))
        /\ UNCHANGED <<catVars, planVars, lexVars>>

\* parser.parse_stmt() returns r
ParseStmtReturned(r) ==
    /\ parser' = r.p
    /\ parse_ret' = [parse_ret EXCEPT
                       !.op = IF r.ret.kind = "Panic" THEN "panicked" ELSE "parse_stmt",
                       !.n = @ + 1,
                       !.ret = r.ret,
                       !.first = IF parse_ret.n = 0 THEN r.ret ELSE @]

\* parser.parse_stmt()
ParseStmt ==
    /\ parse_ret.op \notin {"none", "panicked"}
    /\ parse_ret.n < MaxParses
    /\ ParseStmtReturned(parse_stmt(parser))
    /\ UNCHANGED <<catVars, planVars, lexVars>>

NextParser == ParserUpdate \/ ParseStmt

SpecParser == InitParser /\ [][NextParser]_vars

\* one object is in use, a Lexer or a Parser
InitFrontEnd == InitLexer \/ InitParser

NextFrontEnd == LexUpdate \/ LexNextToken \/ ParserUpdate \/ ParseStmt

SpecFrontEnd == InitFrontEnd /\ [][NextFrontEnd]_vars

RECURSIVE ParsesFrom(_, _)
\* the result of the n-th parse_stmt() of the parser r.p that a call left with r.ret
ParsesFrom(r, n) ==
    IF r.ret.kind = "Panic" \/ n = 0 THEN r
    ELSE ParsesFrom(parse_stmt(r.p), n - 1)

RECURSIVE TokensFrom(_, _)
\* the result of the n-th next_token() of the lexer r.lx that a call left with r.tok
TokensFrom(r, n) ==
    IF r.tok.kind = "Panic" \/ n = 0 THEN r
    ELSE TokensFrom(lexer_next_token(r.lx), n - 1)

\* C5 (as stated): after update(s), every parse_stmt() call before the next
\* update returns what the first one returned.
RepeatedParseIdentical ==
    parse_ret.op \in {"parse_stmt", "panicked"} /\ parse_ret.n >= 1 =>
        parse_ret.ret = parse_ret.first

\* C5 (amended): the result of the k-th parse_stmt() call after update(s) or
\* new_parser(s) is determined by s and k alone, whatever the parser did
\* before; it is the k-th result of a parser newly made on s.
ParseIsFunctionOfSourceAndCount ==
    parse_ret.op \in {"update", "parse_stmt", "panicked"} =>
        LET r == ParsesFrom(new_parser(parse_ret.src), parse_ret.n)
        IN /\ parse_ret.n >= 1 => parse_ret.ret = r.ret
           /\ (parse_ret.op = "panicked") = (r.ret.kind = "Panic")

ParseIsFunctionWitness ==
    /\ parse_ret.op = "parse_stmt"
    /\ parse_ret.via = "update"
    /\ parse_ret.prior.kind = "Ok"
    /\ parse_ret.n = 2
    /\ parse_ret.first.kind = "Ok"
    /\ parse_ret.ret.kind = "Ok"
    /\ parse_ret.ret # parse_ret.first

\* C6: update(s) discards all earlier state: after Lexer::update(s) the lexer
\* and its token stream are those of new_lexer(s), and after Parser::update(s)
\* the parser and the result of parse_stmt() are those of new_parser(s).
UpdateDiscardsState ==
    /\ lex_ret.op = "update" => lexer = new_lexer(lex_ret.src)
    /\ lex_ret.op \in {"next_token", "panicked"} /\ lex_ret.via = "update" =>
         LET r == TokensFrom([lx |-> new_lexer(lex_ret.src), tok |-> NoToken], lex_ret.n)
         IN lex_ret.ret = r.tok /\ lexer = r.lx
    /\ parse_ret.op \in {"update", "parse_stmt", "panicked"} /\ parse_ret.via = "update" =>
         LET r == ParsesFrom(new_parser(parse_ret.src), parse_ret.n)
         IN /\ parser = r.p
            /\ parse_ret.n >= 1 => parse_ret.ret = r.ret
            /\ (parse_ret.op = "panicked") = (r.ret.kind = "Panic")

UpdateDiscardsStateWitness ==
    /\ parse_ret.op = "parse_stmt"
    /\ parse_ret.via = "update"
    /\ parse_ret.prior.kind = "Err"
    /\ parse_ret.n = 1
    /\ parse_ret.ret.kind = "Ok"
    /\ parser.peek_token # Tok("Eof")

\* ---------------------------------------------------------------------------
\* Parsing and planning a query: parser.update(sql).parse_stmt(), then
\* planner.plan(&ast), as in the planner tests and in bin/plan_repl.rs
\* ---------------------------------------------------------------------------

\* the names the queries use, as the planner definitions write them
Vocabulary == TableNames \cup ColNames \cup {"t", "y", "COUNT", "count", "MIN", "MAX",
                                             "SUM", "foo"}

\* the String whose bytes the parser read
StringOf(bytes) == CHOOSE s \in Vocabulary : Bytes(s) = bytes

\* Option<String>
OptionStringOf(o) == IF o.some THEN Some(StringOf(o.v)) ELSE None

RECURSIVE ExpressionOf(_)
\* the Expression the parser built, its names as Strings
ExpressionOf(e) ==
    CASE e.kind = "Field" -> Field(OptionStringOf(e.table), StringOf(e.name))
      [] e.kind = "Literal" -> e
      [] e.kind = "Function" ->
            Function(StringOf(e.name), [i \in 1..Len(e.args) |-> ExpressionOf(e.args[i])])
      [] e.kind = "Operation" ->
            IF e.op \in UnaryOperations THEN UnOp(e.op, ExpressionOf(e.e))
            ELSE BinOp(e.op, ExpressionOf(e.l), ExpressionOf(e.r))

\* Option<Expression>
OptionExpressionOf(o) == IF o.some THEN Some(ExpressionOf(o.v)) ELSE None

RECURSIVE FromItemOf(_)
\* the FromItem the parser built
FromItemOf(item) ==
    IF item.kind = "Table"
    THEN FromTable(StringOf(item.name), OptionStringOf(item.alias))
    ELSE FromJoin(FromItemOf(item.left), FromItemOf(item.right), item.join_type,
                  OptionExpressionOf(item.predicate))

\* the SelectStmt the parser built
SelectStmtOf(s) ==
    [selects |-> [i \in 1..Len(s.selects) |->
                    [expr |-> ExpressionOf(s.selects[i].expr),
                     alias |-> OptionStringOf(s.selects[i].alias)]],
     froms |-> IF s.froms.some
               THEN Some([i \in 1..Len(s.froms.v) |-> FromItemOf(s.froms.v[i])])
               ELSE None,
     wheres |-> OptionExpressionOf(s.wheres),
     group_by |-> IF s.group_by.some
                  THEN Some([i \in 1..Len(s.group_by.v) |-> ExpressionOf(s.group_by.v[i])])
                  ELSE None,
     having |-> OptionExpressionOf(s.having),
     order |-> IF s.order.some
               THEN Some([i \in 1..Len(s.order.v) |->
                            [expr |-> ExpressionOf(s.order.v[i].expr),
                             by |-> s.order.v[i].by]])
               ELSE None,
     offset |-> OptionExpressionOf(s.offset),
     limit |-> OptionExpressionOf(s.limit)]

\* the Statement handed from parse_stmt() to plan()
StatementOf(ast) ==
    IF ast.kind = "Select" THEN [kind |-> "Select", select |-> SelectStmtOf(ast.select)]
    ELSE [kind |-> ast.kind]

\* the queries of the planner tests, on the tables a and b, and others like them
QuerySources ==
    { Bytes("SELECT * FROM a JOIN b ON a.id = b.id;"),
      Bytes("SELECT * FROM a;"),
      Bytes("SELECT a.id FROM a JOIN b ON a.id = b.id;"),
      Bytes("select a.id, x from a join b on b.id = a.id;"),
      Bytes("SELECT id FROM a JOIN b ON a.id = b.id;"),
      Bytes("SELECT a.id FROM a OUTER JOIN b;"),
      Bytes("SELECT a.id FROM a JOIN b;"),
      Bytes("SELECT 1 + 2 * 3;"),
      Bytes("SELECT 1;"),
      Bytes("SELECT COUNT(*) FROM a WHERE a.id != NULL;"),
      Bytes("SELECT COUNT(*) FROM a WHERE a.id != 1;"),
      Bytes("SELECT COUNT(*) FROM a;"),
      Bytes("SELECT count(id) FROM a;"),
      Bytes("SELECT MIN(id) FROM a;"),
      Bytes("SELECT MAX(id) FROM a;"),
      Bytes("SELECT SUM(x) FROM a;"),
      Bytes("SELECT foo(id) FROM a;"),
      Bytes("SELECT id FROM a WHERE foo(id) = 1;"),
      Bytes("SELECT id FROM a WHERE a.id != 1;"),
      Bytes("SELECT id FROM d;"),
      Bytes("SELECT y FROM a;"),
      Bytes("SELECT a.y FROM a;"),
      Bytes("SELECT b.id FROM a;"),
      Bytes("SELECT t.id, t.x FROM a t;"),
      Bytes("SELECT a.id FROM a AS t;"),
      Bytes("SELECT x FROM a ORDER BY id DESC;"),
      Bytes("SELECT FROM a;"),
      Bytes("COMMIT;"),
      Bytes("SELECT 1 ") \o <<195, 188>>,
      <<195, 188>>,
      <<>> }

\* the catalogs the queries are planned on: CataLog::default() as in
\* bin/plan_repl.rs, and one with the tables a (id, x) and b (id)
QueryCatalogs ==
    {BuildCatalog(CataLogDefault, script) :
        script \in {<<>>, <<Tbl("a", <<"id", "x">>), Tbl("b", <<"id">>)>>}}

InitQuery ==
    /\ catalog \in QueryCatalogs
    /\ cat_ret = NoRet
    /\ cat_ok = catalog.next_table_id
    /\ planner = PlannerNew(catalog)
    /\ plan_ret = NoRet
    /\ InitIdleParser

\* planner.plan(&ast) returns r, ast being the statement parsed from sql_str
QueryPlanned(sql_str, ast, r) ==
    /\ planner' = r.self
    /\ plan_ret' = [op |-> IF r.ret.kind = "Panic" THEN "panicked" ELSE "plan",
                    call |-> "plan", src |-> sql_str, stmt |-> ast,
                    fresh |-> planner.context = PlanContextNew, ret |-> r.ret]

\* parser.update(sql_str).parse_stmt() returns r:
\* `match <r> { Ok(s) => match planner.plan(&s) { .. }, Err(e) => .. }`
QueryParsed(sql_str, r) ==
    /\ parser' = r.p
    /\ parse_ret' = [op |-> IF r.ret.kind = "Panic" THEN "panicked" ELSE "parse_stmt",
                     via |-> "update", src |-> sql_str, n |-> 1, ret |-> r.ret,
                     first |-> r.ret, prior |-> NoToken]
    /\ IF r.ret.kind = "Ok"
       THEN QueryPlanned(sql_str, StatementOf(r.ret.v), plan(planner, StatementOf(r.ret.v)))
       ELSE UNCHANGED planVars

\* parser.update(sql_str) returned u: the parse_stmt() that follows
QueryUpdated(sql_str, u) ==
    IF u.ret.kind = "Panic" THEN QueryParsed(sql_str, u)
    ELSE QueryParsed(sql_str, parse_stmt(u.p))

\* one query: parser.update(sql_str).parse_stmt(), and planner.plan(&ast) on
\* the statement when there is one
PlanQuery ==
    \E sql_str \in QuerySources :
        /\ parse_ret.op # "panicked"
        /\ plan_ret.op # "panicked"
        /\ QueryUpdated(sql_str, parser_update(parser, sql_str))
        /\ UNCHANGED <<catVars, lexVars>>

NextQuery == PlanQuery \/ ResetCtx

SpecQuery == InitQuery /\ [][NextQuery]_vars

\* the catalog has the tables a and b
HasTablesAB == is_table_exist(catalog, "a") /\ is_table_exist(catalog, "b")

\* the query has been parsed, and planned when it parsed, on a fresh context
Queried(sql_str) ==
    /\ parse_ret.op = "parse_stmt"
    /\ parse_ret.src = sql_str
    /\ parse_ret.ret.kind = "Ok" => plan_ret.op \in {"plan", "panicked"}
                                      /\ plan_ret.src = sql_str /\ plan_ret.fresh

\* the plan of `a JOIN b ON a.id = b.id`
PlanOfAJoinB ==
    [kind |-> "Join",
     left |-> [kind |-> "Scan", table_name |-> "a",
               table_id |-> table_by_name(catalog, "a").v.id, predicates |-> None],
     right |-> [kind |-> "Scan", table_name |-> "b",
                table_id |-> table_by_name(catalog, "b").v.id, predicates |-> None],
     join_type |-> "Inner",
     predicates |-> BinaryExpr(ColumnExpr(0, "a", "id"), "Eq", ColumnExpr(0, "b", "id"))]

\* C11: `SELECT * FROM a JOIN b ON a.id = b.id;` on existing tables a and b
\* parses, and plans to a Projection over Join(Scan a, Scan b, Inner,
\* a.id = b.id), not to an error.
SelectStarPlans ==
    Queried(Bytes("SELECT * FROM a JOIN b ON a.id = b.id;")) /\ HasTablesAB =>
        /\ parse_ret.ret.kind = "Ok"
        /\ plan_ret.ret.kind = "Ok"
        /\ plan_ret.ret.v.kind = "Projection"
        /\ plan_ret.ret.v.input = PlanOfAJoinB

\* ---------------------------------------------------------------------------
\* Parser::parse_stmt on SELECT and UPDATE statements
\* ---------------------------------------------------------------------------

\* the ways a join is written, and the ones whose type is not Outer
SqlJoins ==
    {"JOIN", "INNER JOIN", "LEFT JOIN", "LEFT OUTER JOIN", "RIGHT JOIN",
     "RIGHT OUTER JOIN", "OUTER JOIN"}
NonOuterJoins == SqlJoins \ {"OUTER JOIN"}

\* the joined table reference, with and without an alias
JoinedTables == {"b", "b t", "b AS t"}

\* what follows the joined table reference: an ON clause, or something else
TailsWithOn ==
    {"ON a.id = b.id;", "ON a.id = b.id OUTER JOIN d;",
     "ON a.id = b.id LEFT JOIN d ON x WHERE x;", "ON;"}
TailsWithoutOn ==
    {";", "", "WHERE x = 1;", "JOIN d ON x;", "OUTER JOIN d;", ", d ON x;"}

\* SELECT x FROM a <join> <table> <tail>
JoinSource(j, r, t) == JoinWords(<<Bytes("SELECT x FROM a"), Bytes(j), Bytes(r), Bytes(t)>>)

JoinSources ==
    {JoinSource(j, r, t) : j \in SqlJoins, r \in JoinedTables,
                           t \in TailsWithOn \cup TailsWithoutOn}

\* the operands of the expressions: a column, a number, a qualified column, a boolean
Operands == {"a", "7", "t.c", "TRUE"}

\* the Expression an operand is
OperandOf(o) ==
    CASE o = "a" -> Field(None, Bytes("a"))
      [] o = "7" -> Literal("Int", 7)
      [] o = "t.c" -> Field(Some(Bytes("t")), Bytes("c"))
      [] o = "TRUE" -> Literal("Bool", TRUE)

\* SELECT <text>;
SelectSource(text) == Bytes("SELECT ") \o text \o Bytes(";")

\* x <op1> y <op2> z, and x <op1> (y <op2> z)
Infix3(x, op1, y, op2, z) == JoinWords(<<Bytes(x), Bytes(op1), Bytes(y), Bytes(op2), Bytes(z)>>)
Infix3Paren(x, op1, y, op2, z) ==
    JoinWords(<<Bytes(x), Bytes(op1)>>) \o Bytes(" (")
        \o JoinWords(<<Bytes(y), Bytes(op2), Bytes(z)>>) \o Bytes(")")

ArithmeticSources ==
    {SelectSource(Infix3(x, "+", y, "*", z)) : x \in Operands, y \in Operands, z \in Operands}
    \cup {SelectSource(Infix3Paren(x, "+", y, "*", z)) :
             x \in Operands, y \in Operands, z \in Operands}
    \cup {SelectSource(Infix3(x, "-", y, "+", z)) :
             x \in Operands, y \in Operands, z \in Operands}
    \cup {SelectSource(Bytes("1 * 2 * 3 + 456 / 4 - 3"))}

LogicalSources ==
    {SelectSource(Infix3(x, "OR", y, "AND", z)) :
        x \in Operands, y \in Operands, z \in Operands}
    \cup {SelectSource(JoinWords(<<Bytes("NOT"), Bytes(x), Bytes("="), Bytes(y)>>)) :
             x \in Operands, y \in Operands}
    \cup {SelectSource(JoinWords(<<Bytes("!"), Bytes(x), Bytes("="), Bytes(y)>>)) :
             x \in Operands, y \in Operands}

\* bound of the UPDATE statements: the assignments of one statement
MaxAssignments == 3

\* the columns assigned by one UPDATE, in the order written
AssignedColumns == UNION {[1..k -> {"a", "b", "c"}] : k \in 1..MaxAssignments}

RECURSIVE Assignments(_, _)
\* `c1 = 1, c2 = 2, ..` for the columns cols, from the i-th on
Assignments(cols, i) ==
    IF i > Len(cols) THEN <<>>
    ELSE Bytes(cols[i]) \o Bytes(" = ") \o <<48 + i>>
           \o (IF i < Len(cols) THEN Bytes(", ") ELSE <<>>) \o Assignments(cols, i + 1)

\* the WHERE clause of the UPDATE statements, when there is one
UpdateWheres == {"", " WHERE id = 9"}

\* UPDATE t SET <assignments>[ WHERE id = 9];
UpdateSource(cols, wh) ==
    Bytes("UPDATE t SET ") \o Assignments(cols, 1) \o Bytes(wh) \o Bytes(";")

UpdateSources ==
    {UpdateSource(cols, wh) : cols \in AssignedColumns, wh \in UpdateWheres}
    \cup { Bytes("update person set name = 'tangruilin' where id = 1;"),
           Bytes("UPDATE t SET;"), Bytes("UPDATE t a = 1;"), Bytes("UPDATE t SET a 1;") }

\* the optional clauses of a SELECT, "" being the clause left out
FromClauses == {"", " FROM a"}
WhereClauses == {"", " WHERE x = 1"}
OrderClauses == {"", " ORDER BY x", " ORDER BY x ASC", " ORDER BY x DESC"}
OffsetClauses == {"", " OFFSET 3"}
LimitClauses == {"", " LIMIT 2"}

\* SELECT x<from><where><order><offset><limit>;
ClauseSource(fr, wh, ob, off, lim) ==
    Bytes("SELECT x") \o Bytes(fr) \o Bytes(wh) \o Bytes(ob) \o Bytes(off)
        \o Bytes(lim) \o Bytes(";")

ClauseSources ==
    {ClauseSource(fr, wh, ob, off, lim) :
        fr \in FromClauses, wh \in WhereClauses, ob \in OrderClauses,
        off \in OffsetClauses, lim \in LimitClauses}

\* comma-separated FROM lists, with the number of their items
FromLists ==
    { [text |-> "a, b", n |-> 2], [text |-> "a, b, d", n |-> 3],
      [text |-> "a t, b", n |-> 2], [text |-> "a JOIN b ON x = y, d", n |-> 2] }

\* the clauses written after the FROM list
AfterFrom ==
    {"", " WHERE x = 1", " GROUP BY x", " ORDER BY x", " OFFSET 3", " LIMIT 2"}

\* SELECT x FROM <list><clause>;
FromListSource(text, clause) ==
    Bytes("SELECT x FROM ") \o Bytes(text) \o Bytes(clause) \o Bytes(";")

FromListSources == {FromListSource(l.text, c) : l \in FromLists, c \in AfterFrom}

\* the parts of a BEGIN statement, "" being the part left out
BeginKeywords == {"", " TRANSACTION"}
BeginModes == {"", " READ ONLY", " READ WRITE"}
BeginTails == {"", " AS OF SYSTEM TIME 12"}

\* BEGIN<transaction><mode><tail>;
BeginSource(tr, mode, tail) ==
    Bytes("BEGIN") \o Bytes(tr) \o Bytes(mode) \o Bytes(tail) \o Bytes(";")

BeginSources ==
    {BeginSource(tr, mode, tail) :
        tr \in BeginKeywords, mode \in BeginModes, tail \in BeginTails}

\* x % y and x + y % z
ModuloSources ==
    {SelectSource(JoinWords(<<Bytes(x), Bytes("%"), Bytes(y)>>)) :
        x \in Operands, y \in Operands}
    \cup {SelectSource(Infix3(x, "+", y, "%", z)) :
             x \in Operands, y \in Operands, z \in Operands}

\* bound of the INSERT statements: the tuples after VALUES
MaxTuples == 3

\* the column lists of INSERT, "" being the list left out
InsertColumnLists == {"", " (a)", " (a, b)"}

\* the tuples of INSERT with the expressions they hold
InsertTuples ==
    { [text |-> "(1)", exprs |-> <<Literal("Int", 1)>>],
      [text |-> "(2, x)", exprs |-> <<Literal("Int", 2), Field(None, Bytes("x"))>>],
      [text |-> "(1 + 2)",
       exprs |-> <<BinOp("Add", Literal("Int", 1), Literal("Int", 2))>>] }

\* one or more tuples
InsertRowLists == UNION {[1..n -> InsertTuples] : n \in 1..MaxTuples}

RECURSIVE TupleList(_, _)
\* the tuples from the i-th on, separated by commas
TupleList(rows, i) ==
    IF i > Len(rows) THEN <<>>
    ELSE Bytes(rows[i].text) \o (IF i < Len(rows) THEN Bytes(", ") ELSE <<>>)
            \o TupleList(rows, i + 1)

\* INSERT INTO t<columns> VALUES <tuple>, <tuple> ..;
InsertSource(cols, rows) ==
    Bytes("INSERT INTO t") \o Bytes(cols) \o Bytes(" VALUES ") \o TupleList(rows, 1)
        \o Bytes(";")

InsertSources ==
    {InsertSource(cols, rows) : cols \in InsertColumnLists, rows \in InsertRowLists}
    \cup { Bytes("insert into person (id, name, age) values (1, 'tangruilin', 14)"),
           Bytes("insert into person values (1, 'tangruilin', 14)"),
           Bytes("INSERT INTO t VALUES;"), Bytes("INSERT INTO t (a VALUES (1);"),
           Bytes("INSERT INTO t VALUES (1;") }

\* bound of the column definitions: the options written after the type
MaxOptions == 3

\* options of a column definition
ColumnOptionWords == {"NULL", "NOT NULL", "PRIMARY KEY", "UNIQUE"}

ColumnOptionLists == UNION {[1..n -> ColumnOptionWords] : n \in 0..MaxOptions}

RECURSIVE OptionList(_, _)
\* the options from the i-th on, each after a space
OptionList(opts, i) ==
    IF i > Len(opts) THEN <<>>
    ELSE Bytes(" ") \o Bytes(opts[i]) \o OptionList(opts, i + 1)

\* CREATE TABLE t (c INT <options>);
CreateSource(opts) ==
    Bytes("CREATE TABLE t (c INT") \o OptionList(opts, 1) \o Bytes(");")

\* ALTER TABLE t ADD COLUMN c INT <options>;
AlterSource(opts) ==
    Bytes("ALTER TABLE t ADD COLUMN c INT") \o OptionList(opts, 1) \o Bytes(";")

ColumnSources ==
    {CreateSource(opts) : opts \in ColumnOptionLists}
    \cup {AlterSource(opts) : opts \in ColumnOptionLists}
    \cup { Bytes("create table person (id int primary key, name string not null default 'tangruilin', age int unique, class int index references country);"),
           Bytes("CREATE TABLE t (c VARCHAR(10), d VARCHAR(1.5));"),
           Bytes("CREATE TABLE t (c INT d);"), Bytes("CREATE TABLE t (c INT SELECT);") }

\* the statements given to new_parser
SqlSources ==
    JoinSources \cup ArithmeticSources \cup LogicalSources \cup UpdateSources
        \cup ClauseSources \cup FromListSources \cup BeginSources
        \cup ModuloSources \cup InsertSources \cup ColumnSources

InitSql ==
    /\ catalog = CataLogDefault
    /\ cat_ret = NoRet
    /\ cat_ok = 0
    /\ InitIdlePlanner
    /\ lexer = new_lexer(<<>>)
    /\ lex_ret = NoRet
    /\ \E sql_str \in SqlSources :
         /\ parser = new_parser(sql_str).p
         /\ parse_ret = [op |-> IF new_parser(sql_str).ret.kind = "Panic"
                                THEN "panicked" ELSE "new",
                         via |-> "new", src |-> sql_str, n |-> 0,
                         ret |-> IF new_parser(sql_str).ret.kind = "Panic"
                                 THEN Panic ELSE NoToken,
                         first |-> NoToken, prior |-> NoToken]

SpecSql == InitSql /\ [][NextParser]_vars

\* parse_stmt() has returned ret for the source sql_str, its first statement
Parsed(sql_str) ==
    parse_ret.op = "parse_stmt" /\ parse_ret.n = 1 /\ parse_ret.src = sql_str

RECURSIVE JoinsHavePredicates(_)
\* every Join of the FromItem has a predicate iff its type is not Outer
JoinsHavePredicates(item) ==
    item.kind = "Join" =>
        /\ item.predicate.some <=> item.join_type # "Outer"
        /\ JoinsHavePredicates(item.left)
        /\ JoinsHavePredicates(item.right)

\* C12: an Inner (JOIN, INNER JOIN), Left or Right join whose joined table
\* reference is not followed by ON makes parse_stmt return a Parse error, and
\* in every Select the parser returns a Join has a predicate iff its
\* join_type is not Outer.
JoinRequiresOn ==
    /\ \A j \in NonOuterJoins, r \in JoinedTables, t \in TailsWithoutOn :
          Parsed(JoinSource(j, r, t)) =>
              parse_ret.ret.kind = "Err" /\ parse_ret.ret.err = "Parse"
    /\ parse_ret.op = "parse_stmt" /\ parse_ret.ret.kind = "Ok"
           /\ parse_ret.ret.v.kind = "Select" /\ parse_ret.ret.v.select.froms.some =>
          \A i \in 1..Len(parse_ret.ret.v.select.froms.v) :
              JoinsHavePredicates(parse_ret.ret.v.select.froms.v[i])

\* a LEFT JOIN without ON has been rejected
JoinRequiresOnWitness ==
    /\ Parsed(JoinSource("LEFT OUTER JOIN", "b AS t", "WHERE x = 1;"))
    /\ parse_ret.ret.kind = "Err"
    /\ parse_ret.ret.err = "Parse"
    /\ parse_ret.ret.msg = MsgWant("unexpected keyword", KeyWord("Where"), "On")

\* parse_stmt() returned a SELECT of the one expression e and nothing else
SelectsOnly(e) ==
    parse_ret.ret = Ok([kind |-> "Select",
                        select |-> SelectStmt(<<[expr |-> e, alias |-> None]>>,
                                              None, None, None, None)])

IntLit(n) == Literal("Int", n)

AndBindsTighterThanOr ==
    \A x \in Operands, y \in Operands, z \in Operands :
        Parsed(SelectSource(Infix3(x, "OR", y, "AND", z))) =>
            SelectsOnly(BinOp("Or", OperandOf(x), BinOp("And", OperandOf(y), OperandOf(z))))

\* C15: `NOT x = y` parses to Not(Equal(x, y)).
NotBindsOverComparison ==
    \A x \in Operands, y \in Operands :
        Parsed(SelectSource(JoinWords(<<Bytes("NOT"), Bytes(x), Bytes("="), Bytes(y)>>))) =>
            SelectsOnly(UnOp("Not", BinOp("Equal", OperandOf(x), OperandOf(y))))

\* the columns of cols are pairwise distinct
Distinct(cols) == \A i \in 1..Len(cols), j \in 1..Len(cols) : cols[i] = cols[j] => i = j

\* the first column of cols that an earlier one repeats
FirstRepeated(cols) ==
    cols[CHOOSE i \in 1..Len(cols) :
            /\ \E j \in 1..(i - 1) : cols[j] = cols[i]
            /\ \A k \in 1..(i - 1) : \A j \in 1..(k - 1) : cols[j] # cols[k]]

\* the Update statement of UpdateSource(cols, wh), cols being distinct
UpdateOf(cols, wh) ==
    [kind |-> "Update", table_name |-> Bytes("t"),
     set |-> [c \in {Bytes(cols[i]) : i \in 1..Len(cols)} |->
                IntLit(CHOOSE i \in 1..Len(cols) : Bytes(cols[i]) = c)],
     wheres |-> IF wh = "" THEN None
                ELSE Some(BinOp("Equal", Field(None, Bytes("id")), IntLit(9)))]

\* C20: UPDATE with k >= 1 comma-separated assignments to distinct columns
\* parses to Update whose set maps each column to its expression, the WHERE
\* clause being parsed as well; a column assigned twice is a Parse error for
\* that column.
UpdateAcceptsAssignments ==
    \A cols \in AssignedColumns, wh \in UpdateWheres :
        Parsed(UpdateSource(cols, wh)) =>
            IF Distinct(cols)
            THEN parse_ret.ret = Ok(UpdateOf(cols, wh))
            ELSE parse_ret.ret = Err("Parse", [text |-> "Duplicate values given for column",
                                               column |-> Bytes(FirstRepeated(cols))])

\* an UPDATE with one assignment parses to Update, with and without WHERE
UpdateOneAssignment ==
    \A cols \in AssignedColumns, wh \in UpdateWheres :
        Parsed(UpdateSource(cols, wh)) /\ Len(cols) = 1 =>
            parse_ret.ret = Ok(UpdateOf(cols, wh))

\* ---------------------------------------------------------------------------
\* plan() on the statements the parser returns
\* ---------------------------------------------------------------------------

\* the Projection of one unaliased expression over input
ProjectionOf(expr, input) ==
    [kind |-> "Projection", exprs |-> <<[expr |-> expr, alias |-> None]>>,
     input |-> input]

\* C16: plan() of a SELECT without FROM returns Ok(Projection) over the Null
\* node: `SELECT 1 + 2 * 3;` plans to the Projection of Plus(1, Multiply(2, 3))
\* over PlanNode::Null.
SelectWithoutFromPlans ==
    /\ Queried(Bytes("SELECT 1 + 2 * 3;")) =>
          /\ parse_ret.ret.kind = "Ok"
          /\ plan_ret.ret =
                Ok(ProjectionOf(
                      BinaryExpr(LiteralExpr("Int", 1), "Plus",
                                 BinaryExpr(LiteralExpr("Int", 2), "Multiply",
                                            LiteralExpr("Int", 3))),
                      [kind |-> "Null"]))
    /\ Queried(Bytes("SELECT 1;")) =>
          /\ parse_ret.ret.kind = "Ok"
          /\ plan_ret.ret = Ok(ProjectionOf(LiteralExpr("Int", 1), [kind |-> "Null"]))

\* the Scan of table a
ScanOfA ==
    [kind |-> "Scan", table_name |-> "a",
     table_id |-> table_by_name(catalog, "a").v.id, predicates |-> None]

\* the aggregate calls of the queries, with the Agg each is to be planned to
AggregateQueries ==
    { [src |-> "SELECT COUNT(*) FROM a;",
       agg |-> AggExpr("Count", <<LiteralExpr("All", 0)>>)],
      [src |-> "SELECT MIN(id) FROM a;",
       agg |-> AggExpr("Min", <<ColumnExpr(0, "a", "id")>>)],
      [src |-> "SELECT MAX(id) FROM a;",
       agg |-> AggExpr("Max", <<ColumnExpr(0, "a", "id")>>)],
      [src |-> "SELECT SUM(x) FROM a;",
       agg |-> AggExpr("Sum", <<ColumnExpr(1, "a", "x")>>)] }

\* C17: a SELECT whose select list calls MIN, MAX, COUNT or SUM plans to Ok
\* with the call translated to Agg{kind, args}; `SELECT COUNT(*) FROM a WHERE
\* a.id != NULL;` plans to the Projection of Agg(Count, [All]) over
\* Filter(NotEq(a.id, Null)) over Scan a.
AggregatesPlan ==
    HasTablesAB =>
        /\ \A q \in AggregateQueries :
              Queried(Bytes(q.src)) =>
                  /\ parse_ret.ret.kind = "Ok"
                  /\ plan_ret.ret = Ok(ProjectionOf(q.agg, ScanOfA))
        /\ Queried(Bytes("SELECT COUNT(*) FROM a WHERE a.id != NULL;")) =>
              /\ parse_ret.ret.kind = "Ok"
              /\ plan_ret.ret =
                    Ok(ProjectionOf(
                          AggExpr("Count", <<LiteralExpr("All", 0)>>),
                          [kind |-> "Filter", input |-> ScanOfA,
                           predicates |-> BinaryExpr(ColumnExpr(0, "a", "id"), "NotEq",
                                                     LiteralExpr("Null", 0))]))

\* the queries with a semantic fault: an unknown table, an unknown column, an
\* ambiguous column, an unknown function name, a join without predicate
FaultyQueries ==
    { "SELECT id FROM d;", "SELECT y FROM a;", "SELECT a.y FROM a;",
      "SELECT b.id FROM a;", "SELECT id FROM a JOIN b ON a.id = b.id;",
      "SELECT foo(id) FROM a;", "SELECT id FROM a WHERE foo(id) = 1;",
      "SELECT a.id FROM a OUTER JOIN b;" }

\* C18: every error plan() returns for a semantic fault in the statement has
\* kind Plan, never Parse.
PlanErrorsAreSemantic ==
    \A q \in FaultyQueries :
        Queried(Bytes(q)) /\ HasTablesAB /\ parse_ret.ret.kind = "Ok" =>
            /\ plan_ret.ret.kind = "Err"
            /\ plan_ret.ret.err = "Plan"

\* ---------------------------------------------------------------------------
\* Column references in the select list
\* ---------------------------------------------------------------------------

\* table info holds a column called c
HoldsColumn(info, c) == \E i \in 1..Len(info.schema) : info.schema[i] = c

\* the zero-based position of c in the schema of info
PositionIn(info, c) == (CHOOSE i \in 1..Len(info.schema) : info.schema[i] = c) - 1

\* the names of the tables bound in ctx, by name or by alias, that hold c
TablesHolding(ctx, c) ==
    {ctx.table_map[k].name : k \in {t \in DOMAIN ctx.table_map :
                                        HoldsColumn(ctx.table_map[t], c)}}

\* how a Field meets the context: "resolves", "fault" (unbound table, column
\* missing from the table, column in no bound table) or "ambiguous"
FieldCase(ctx, e) ==
    IF e.table.some
    THEN IF ContainsKey(ctx.table_map, e.table.v)
            /\ HoldsColumn(ctx.table_map[e.table.v], e.name)
         THEN "resolves" ELSE "fault"
    ELSE CASE Cardinality(TablesHolding(ctx, e.name)) = 1 -> "resolves"
           [] Cardinality(TablesHolding(ctx, e.name)) = 0 -> "fault"
           [] OTHER -> "ambiguous"

\* the ColumnExpr of a Field that resolves
FieldColumn(ctx, e) ==
    IF e.table.some
    THEN ColumnExpr(PositionIn(ctx.table_map[e.table.v], e.name), e.table.v, e.name)
    ELSE LET t == CHOOSE n \in TablesHolding(ctx, e.name) : TRUE
         IN ColumnExpr(PositionIn(ctx.table_map[t], e.name), t, e.name)

\* a SELECT of column references FROM tables, without further clauses
IsFieldSelect(ast) ==
    /\ ast.kind = "Select"
    /\ Len(ast.select.selects) > 0
    /\ \A i \in 1..Len(ast.select.selects) : ast.select.selects[i].expr.kind = "Field"
    /\ ast.select.froms.some
    /\ ~ast.select.wheres.some /\ ~ast.select.group_by.some /\ ~ast.select.order.some

\* what plan() of the select list returns in context ctx over the plan node
FieldsResolved(ctx, selects, node, ret) ==
    LET faults == {i \in 1..Len(selects) : FieldCase(ctx, selects[i].expr) # "resolves"}
    IN IF faults = {}
       THEN ret = Ok([kind |-> "Projection",
                      exprs |-> [i \in 1..Len(selects) |->
                                    [expr |-> FieldColumn(ctx, selects[i].expr),
                                     alias |-> selects[i].alias]],
                      input |-> node])
       ELSE LET k == CHOOSE i \in faults : \A j \in faults : i <= j
            IN FieldCase(ctx, selects[k].expr) = "fault" =>
                  ret.kind = "Err" /\ ret.err = "Plan"

IsTableSelect(ast) ==
    /\ ast.kind = "Select"
    /\ Len(ast.select.selects) > 0
    /\ ast.select.froms.some
    /\ Len(ast.select.froms.v) > 0
    /\ ast.select.froms.v[1].kind = "Table"
    /\ is_table_exist(catalog, ast.select.froms.v[1].name)

\* the names item asks the context to bind
AskedNames(item) ==
    {item.name} \cup (IF item.alias.some THEN {item.alias.v} ELSE {})

\* column_map with the table called name listed once more under each column
\* of columns, in the order of the columns
Recorded(column_map, columns, name) ==
    [c \in DOMAIN column_map \cup {columns[i] : i \in 1..Len(columns)} |->
        (IF c \in DOMAIN column_map THEN column_map[c] ELSE <<>>)
            \o [j \in 1..Cardinality({i \in 1..Len(columns) : columns[i] = c}) |-> name]]

\* C24: table names and aliases share one namespace in PlanContext:
\* insert_table_info returns a Plan error iff the table name or the given
\* alias is already a key of table_map, and then leaves table_map and
\* column_map unchanged; otherwise it binds the name, the alias if any, and
\* records the table under each of its column names.
OneNamespace ==
    [][(plan_ret'.op \in {"plan", "panicked"} /\ IsTableSelect(plan_ret'.stmt)) =>
          LET item == plan_ret'.stmt.select.froms.v[1]
              info == table_by_name(catalog, item.name).v
              ctx == planner.context
          IN IF AskedNames(item) \cap DOMAIN ctx.table_map # {}
             THEN /\ plan_ret'.ret = Err("Plan", "is exist")
                  /\ planner'.context = ctx
             ELSE /\ plan_ret'.ret # Err("Plan", "is exist")
                  /\ DOMAIN planner'.context.table_map =
                        DOMAIN ctx.table_map \cup AskedNames(item)
                  /\ \A k \in DOMAIN planner'.context.table_map :
                        planner'.context.table_map[k] =
                            IF k \in AskedNames(item) THEN info ELSE ctx.table_map[k]
                  /\ planner'.context.column_map =
                        Recorded(ctx.column_map, info.schema, info.name)]_vars

\* `FROM a AS b` has been refused because b was bound before, a being free
OneNamespaceWitness ==
    /\ plan_ret.op = "plan"
    /\ IsTableSelect(plan_ret.stmt)
    /\ plan_ret.stmt.select.froms.v[1] = FromTable("a", Some("b"))
    /\ plan_ret.ret = Err("Plan", "is exist")
    /\ "b" \in DOMAIN planner.context.table_map
    /\ "a" \notin DOMAIN planner.context.table_map

\* C30: in every PlanContext reached through insert_table_info, each table
\* name listed in column_map[c] is a key of table_map whose schema holds a
\* column named c; so resolving an unqualified column whose list has length 1
\* finds the table and the column, and neither the Internal error nor the
\* todo!() after the lookup in plan_expression is reached.
ColumnMapAgrees ==
    LET ctx == planner.context
    IN /\ \A c \in DOMAIN ctx.column_map :
            /\ \A i \in 1..Len(ctx.column_map[c]) :
                  /\ ctx.column_map[c][i] \in DOMAIN ctx.table_map
                  /\ HoldsColumn(ctx.table_map[ctx.column_map[c][i]], c)
            /\ Len(ctx.column_map[c]) = 1 =>
                  plan_expression(ctx, Field(None, c)).kind = "Ok"
       /\ (plan_ret.op \in {"plan", "panicked"} /\ IsFieldSelect(plan_ret.stmt)) =>
            /\ plan_ret.ret.kind # "Panic"
            /\ plan_ret.ret.kind = "Err" => plan_ret.ret.err = "Plan"

\* `SELECT id FROM a AS t` has resolved id through the one name column_map
\* lists for it
ColumnMapAgreesWitness ==
    /\ plan_ret.op = "plan"
    /\ IsFieldSelect(plan_ret.stmt)
    /\ plan_ret.stmt.select.froms.v[1] = FromTable("a", Some("t"))
    /\ plan_ret.stmt.select.selects[1].expr = Field(None, "id")
    /\ plan_ret.ret.kind = "Ok"
    /\ planner.context.column_map["id"] = <<"a">>
    /\ DOMAIN planner.context.table_map = {"a", "t"}

\* ---------------------------------------------------------------------------
\* The order in which plan_select builds the tree
\* ---------------------------------------------------------------------------

\* a SELECT with FROM, without GROUP BY and without a function call in the
\* select list
IsPlainSelect(ast) ==
    /\ ast.kind = "Select"
    /\ Len(ast.select.selects) > 0
    /\ ast.select.froms.some
    /\ Len(ast.select.froms.v) > 0
    /\ ~ast.select.group_by.some
    /\ \A i \in 1..Len(ast.select.selects) :
          has_aggregation(ast.select.selects[i].expr) = Ok(FALSE)

\* the plan of the FROM item in ctx with the context it leaves: of a join,
\* the left side, then the right side in the context the left side left,
\* then the predicate in the context both left
FromPlanned(ctx, cat, item) ==
    IF item.kind = "Join"
    THEN LET l == plan_from(ctx, cat, item.left)
             r == plan_from(l.ctx, cat, item.right)
         IN IF l.ret.kind = "Ok" /\ r.ret.kind = "Ok" /\ item.predicate.some
            THEN LET pred == plan_expression(r.ctx, item.predicate.v)
                 IN IF pred.kind = "Ok"
                    THEN [ok |-> TRUE, ctx |-> r.ctx,
                          node |-> [kind |-> "Join", left |-> l.ret.v,
                                    right |-> r.ret.v,
                                    join_type |-> item.join_type,
                                    predicates |-> pred.v]]
                    ELSE [ok |-> FALSE]
            ELSE [ok |-> FALSE]
    ELSE LET t == plan_from(ctx, cat, item)
         IN IF t.ret.kind = "Ok"
            THEN [ok |-> TRUE, ctx |-> t.ctx, node |-> t.ret.v]
            ELSE [ok |-> FALSE]

\* node under Filter iff the statement has WHERE
Filtered(ctx, st, node) ==
    IF st.wheres.some
    THEN [kind |-> "Filter", input |-> node,
          predicates |-> plan_expression(ctx, st.wheres.v).v]
    ELSE node

\* node under Projection
Projected(ctx, st, node) ==
    [kind |-> "Projection", exprs |-> plan_select_exprs(ctx, st.selects, 1).v,
     input |-> node]

\* node under Sort iff the statement has ORDER BY
Sorted(ctx, st, node) ==
    IF st.order.some
    THEN [kind |-> "Sort", input |-> node,
          by_column |-> plan_order_exprs(ctx, st.order.v, 1).v]
    ELSE node

\* every expression of the statement translates in ctx
Translates(ctx, st) ==
    /\ st.wheres.some => plan_expression(ctx, st.wheres.v).kind = "Ok"
    /\ plan_select_exprs(ctx, st.selects, 1).kind = "Ok"
    /\ st.order.some => plan_order_exprs(ctx, st.order.v, 1).kind = "Ok"

\* C23: for a non-aggregate SELECT with FROM, plan() builds the tree bottom-up
\* in a fixed order: the FROM plan (left side before right side, both before
\* the join predicate) innermost, under Filter iff WHERE is present, then
\* always under Projection, then under Sort iff ORDER BY is present; all FROM
\* tables are bound before any WHERE, select-list or ORDER BY expression is
\* translated.
PlanBottomUp ==
    [][(plan_ret'.op \in {"plan", "panicked"} /\ IsPlainSelect(plan_ret'.stmt)) =>
          LET st == plan_ret'.stmt.select
              fr == FromPlanned(planner.context, planner.catalog, st.froms.v[1])
          IN fr.ok =>
                /\ planner'.context = fr.ctx
                /\ Translates(fr.ctx, st) =>
                      plan_ret'.ret =
                          Ok(Sorted(fr.ctx, st,
                                Projected(fr.ctx, st,
                                    Filtered(fr.ctx, st, fr.node))))]_vars

\* `SELECT a.id FROM a JOIN b ON a.id = b.id WHERE b.id != NULL ORDER BY ..`
\* has been planned to Sort over Projection over Filter over Join
PlanBottomUpWitness ==
    /\ plan_ret.op = "plan"
    /\ plan_ret.ret.kind = "Ok"
    /\ plan_ret.ret.v.kind = "Sort"
    /\ plan_ret.ret.v.input.kind = "Projection"
    /\ plan_ret.ret.v.input.input.kind = "Filter"
    /\ plan_ret.ret.v.input.input.predicates =
          BinaryExpr(ColumnExpr(0, "b", "id"), "NotEq", LiteralExpr("Null", 0))
    /\ plan_ret.ret.v.input.input.input.kind = "Join"
    /\ plan_ret.ret.v.input.input.input.left.table_name = "a"
    /\ plan_ret.ret.v.input.input.input.right.table_name = "b"

\* ---------------------------------------------------------------------------
\* parse_stmt on the clauses of SELECT
\* ---------------------------------------------------------------------------

\* the clause written after the FROM list is in the SelectStmt
ClauseParsed(st, clause) ==
    CASE clause = " WHERE x = 1" -> st.wheres.some
      [] clause = " GROUP BY x" -> st.group_by.some
      [] clause = " ORDER BY x" -> st.order.some
      [] clause = " OFFSET 3" -> st.offset.some
      [] clause = " LIMIT 2" -> st.limit.some
      [] OTHER -> TRUE

\* C25: a FROM clause with n >= 2 comma-separated items parses to a Select
\* whose froms holds n FromItems in source order, and the clauses written
\* after the list are still parsed into the statement.
FromListParses ==
    \A l \in FromLists, c \in AfterFrom :
        Parsed(FromListSource(l.text, c)) =>
            /\ parse_ret.ret.kind = "Ok"
            /\ parse_ret.ret.v.kind = "Select"
            /\ parse_ret.ret.v.select.froms.some
            /\ Len(parse_ret.ret.v.select.froms.v) = l.n
            /\ parse_ret.ret.v.select.froms.v[1].kind \in {"Table", "Join"}
            /\ ClauseParsed(parse_ret.ret.v.select, c)

\* C26: OFFSET and LIMIT are independent optional clauses of SELECT: with
\* `LIMIT e` in the source the SelectStmt has limit = Some(e), with `OFFSET e`
\* it has offset = Some(e), whichever of FROM, WHERE, ORDER BY (with or without
\* a direction) and the other of the two are present.
OffsetLimitIndependent ==
    \A fr \in FromClauses, wh \in WhereClauses, ob \in OrderClauses,
       off \in OffsetClauses, lim \in LimitClauses :
        Parsed(ClauseSource(fr, wh, ob, off, lim)) =>
            /\ parse_ret.ret.kind = "Ok"
            /\ parse_ret.ret.v.kind = "Select"
            /\ parse_ret.ret.v.select.limit =
                  (IF lim = "" THEN None ELSE Some(IntLit(2)))
            /\ parse_ret.ret.v.select.offset =
                  (IF off = "" THEN None ELSE Some(IntLit(3)))

\* C27: the TRANSACTION keyword after BEGIN is optional and does not change
\* the result: `BEGIN READ ONLY` yields Begin{is_readonly: true} as
\* `BEGIN TRANSACTION READ ONLY` does, and an `AS OF SYSTEM TIME n` tail
\* yields version = Some(n) in every form in which the statement is accepted.
TransactionKeywordOptional ==
    /\ \A mode \in BeginModes :
          Parsed(BeginSource("", mode, "")) =>
              parse_ret.ret = Ok(BeginStmt(mode = " READ ONLY", None))
    /\ \A tr \in BeginKeywords, mode \in BeginModes :
          Parsed(BeginSource(tr, mode, " AS OF SYSTEM TIME 12"))
              /\ parse_ret.ret.kind = "Ok" =>
                  parse_ret.ret = Ok(BeginStmt(mode = " READ ONLY", Some(12)))

\* with TRANSACTION written, the mode and the version are as the source says
BeginTransactionParses ==
    \A mode \in BeginModes, tail \in BeginTails :
        Parsed(BeginSource(" TRANSACTION", mode, tail)) /\ mode # "" =>
            parse_ret.ret = Ok(BeginStmt(mode = " READ ONLY",
                                         IF tail = "" THEN None ELSE Some(12)))

\* C28: % is an infix arithmetic operator at Product precedence: `a % b`
\* parses to Modulo(a, b) and `a + b % c` to Add(a, Modulo(b, c)).
ModuloIsProduct ==
    \A x \in Operands, y \in Operands :
        /\ Parsed(SelectSource(JoinWords(<<Bytes(x), Bytes("%"), Bytes(y)>>))) =>
              SelectsOnly(BinOp("Modulo", OperandOf(x), OperandOf(y)))
        /\ \A z \in Operands :
              Parsed(SelectSource(Infix3(x, "+", y, "%", z))) =>
                  SelectsOnly(BinOp("Add", OperandOf(x),
                                    BinOp("Modulo", OperandOf(y), OperandOf(z))))

\* ---------------------------------------------------------------------------
\* parse_stmt on INSERT and on column definitions
\* ---------------------------------------------------------------------------

\* the Insert statement that cols and rows write
InsertOf(cols, rows) ==
    [kind |-> "Insert", table_name |-> Bytes("t"),
     columns |-> CASE cols = "" -> None
                   [] cols = " (a)" -> Some(<<Bytes("a")>>)
                   [] cols = " (a, b)" -> Some(<<Bytes("a"), Bytes("b")>>),
     values |-> [i \in 1..Len(rows) |->
                    [j \in 1..Len(rows[i].exprs) |-> Some(rows[i].exprs[j])]]]

\* C21: INSERT accepts one or more comma-separated VALUES tuples: with n >= 1
\* tuples parse_stmt returns Insert whose values has exactly n rows, row i
\* holding the expressions of the i-th tuple in order, with columns =
\* Some(list) iff a column list was written.
InsertTakesTuples ==
    \A cols \in InsertColumnLists, rows \in InsertRowLists :
        Parsed(InsertSource(cols, rows)) => parse_ret.ret = Ok(InsertOf(cols, rows))

\* opts writes both NULL and NOT NULL
BothNullOptions(opts) ==
    /\ \E i \in 1..Len(opts) : opts[i] = "NULL"
    /\ \E i \in 1..Len(opts) : opts[i] = "NOT NULL"

\* C22: in a column definition, writing both NULL and NOT NULL, in either
\* order, makes parse_stmt return a Parse error; no Column returned by the
\* parser comes from a definition that contained both options.
NullAndNotNullRejected ==
    \A opts \in ColumnOptionLists :
        (BothNullOptions(opts) /\ (Parsed(CreateSource(opts)) \/ Parsed(AlterSource(opts))))
            => (parse_ret.ret.kind = "Err" /\ parse_ret.ret.err = "Parse")

\* ---------------------------------------------------------------------------
\* Termination of parse_stmt
\* ---------------------------------------------------------------------------

\* statements that enter every loop and every recursion of the parser
LoopStatements ==
    { Bytes("SELECT a, f(x, -(y + 1) * 2), count(*) AS n FROM a t LEFT JOIN b ON a.id = b.id JOIN d ON x = y, e WHERE x = 1 AND y GROUP BY x, y HAVING z ORDER BY x DESC, y OFFSET 3 LIMIT 2;"),
      Bytes("INSERT INTO t (a, b) VALUES (1, x + 2), (3, 4);"),
      Bytes("INSERT INTO t VALUES (f((1)), 2);"),
      Bytes("UPDATE t SET a = 1, b = f(2, 3) WHERE c;"),
      Bytes("CREATE TABLE t (c VARCHAR(10) PRIMARY KEY NOT NULL DEFAULT 1 + 2 UNIQUE INDEX REFERENCES d NULL, e INT);"),
      Bytes("CREATE UNIQUE INDEX i ON t (a, b, c);"),
      Bytes("ALTER TABLE t ADD INDEX i (a, b,, c);"),
      Bytes("ALTER TABLE t ADD COLUMN c INT NULL DEFAULT (1) UNIQUE;"),
      Bytes("EXPLAIN EXPLAIN EXPLAIN DELETE FROM t WHERE ((a));"),
      Bytes("SELECT a,a,a,a,a,a,a,a,a;"),
      Bytes("SELECT !!!!!!!!a,((((((a))))));"),
      Bytes("INSERT INTO t VALUES(1,1,1,1,1,1,1,1);"),
      Bytes("SELECT 1 ") \o <<0>> \o Bytes(" , 2 FROM a;") }

\* every statement cut off after each of its bytes
LoopSources ==
    UNION {{SubSeq(src, 1, n) : n \in 0..Len(src)} : src \in LoopStatements}
        \cup ParserSources

\* the parser with the ghost counter at zero
Counting(p) ==
    [lexer |-> p.lexer, pre_token |-> p.pre_token, peek_token |-> p.peek_token,
     turns |-> 0]

\* the parser without the ghost counter
Parser(p) == [lexer |-> p.lexer, pre_token |-> p.pre_token, peek_token |-> p.peek_token]

InitLoops ==
    /\ catalog = CataLogDefault
    /\ cat_ret = NoRet
    /\ cat_ok = 0
    /\ InitIdlePlanner
    /\ lexer = new_lexer(<<>>)
    /\ lex_ret = NoRet
    /\ \E sql_str \in LoopSources :
         /\ parser = new_parser(sql_str).p
         /\ parse_ret = [op |-> IF new_parser(sql_str).ret.kind = "Panic"
                                THEN "panicked" ELSE "new",
                         via |-> "new", src |-> sql_str, n |-> 0,
                         ret |-> IF new_parser(sql_str).ret.kind = "Panic"
                                 THEN Panic ELSE NoToken,
                         first |-> NoToken, prior |-> NoToken]

\* parser.parse_stmt() of the counting parser returns r
CountedReturned(r) ==
    /\ parser' = Parser(r.p)
    /\ parse_ret' = [op |-> IF r.ret.kind = "Panic" THEN "panicked" ELSE "parse_stmt",
                     via |-> parse_ret.via, src |-> parse_ret.src,
                     n |-> parse_ret.n + 1, ret |-> r.ret,
                     first |-> IF parse_ret.n = 0 THEN r.ret ELSE parse_ret.first,
                     prior |-> parse_ret.prior,
                     turns |-> r.p.turns, budget |-> TurnBudget(r.p)]

\* parser.parse_stmt(), its loop turns and recursive calls counted
ParseStmtCounted ==
    /\ parse_ret.op \notin {"none", "panicked"}
    /\ parse_ret.n < MaxParses
    /\ CountedReturned(parse_stmt(Counting(parser)))
    /\ UNCHANGED <<catVars, planVars, lexVars>>

NextLoops == ParserUpdate \/ ParseStmtCounted

SpecLoops == InitLoops /\ [][NextLoops]_vars

\* C29: parse_stmt terminates on every finite source: every loop turn and
\* every recursive call of the parser consumes at least one token or returns,
\* so that a call takes no more turns than its source has room for, and it
\* ends with a Statement or a Parse error unless the scanner has panicked.
ParseStmtTerminates ==
    parse_ret.n > 0 =>
        /\ parse_ret.ret.kind # "Diverged"
        /\ parse_ret.turns < parse_ret.budget
        /\ \/ parse_ret.ret.kind \in {"Ok", "Panic"}
           \/ parse_ret.ret.kind = "Err" /\ parse_ret.ret.err = "Parse"

\* parse_stmt has returned the nine items of a select list that ends with
\* the source, after more turns than the source has bytes
ParseStmtTerminatesWitness ==
    /\ parse_ret.n = 1
    /\ parse_ret.src = Bytes("SELECT a,a,a,a,a,a,a,a,a")
    /\ parse_ret.ret.kind = "Ok"
    /\ Len(parse_ret.ret.v.select.selects) = 9
    /\ parse_ret.turns > Len(parse_ret.src)

====
